---- MODULE Spec2Model ----
(***************************************************************************)
(* collab-time: the client-side team state store of src/app/[teamId]/      *)
(* page.tsx (a TanStack Query cache entry updated through updateTeamCache),*)
(* its realtime reconciler (useRealtime onData), the local handlers, and   *)
(* the Local Identity Resolver of src/hooks/use-current-team-user.ts.      *)
(*                                                                         *)
(* A value that is `T | null | undefined` in the source is a sequence of   *)
(* length at most one here: <<>> for null/undefined, <<v>> for v.          *)
(***************************************************************************)
EXTENDS Integers, Sequences, FiniteSets, TLC

----------------------------------------------------------------------------
(* Bounds of the model *)

\* longest `order` list carried by a membersReordered / groupsReordered event
MaxOrderLen == 2
\* how many times the clock advances
MaxTicks == 2
\* how many updateMember requests of handleMemberDroppedOnGroup are in flight
MaxPending == 1
\* teams visited for the first time, and visits of teams visited before
MaxFresh == 10
MaxRevisits == 2
\* use-visited-teams: the length the list is cut to
MAX_VISITED_TEAMS == 10
\* longest member list handed to useCurrentTeamUser
MaxHookMembers == 2
\* longest dismissedSuggestions list
MaxDismissed == 2

(* Program constants *)

\* page.tsx:202, client.tsx:54: the removal de-dup window
DedupWindowMs == 1500

\* the clock's grain, one millisecond short of the window: a delivery one Tick
\* after a removal is the last one inside the window, a delivery two Ticks
\* after it is outside
TickMs == DedupWindowMs - 1
MaxNow == MaxTicks * TickMs

----------------------------------------------------------------------------
(* Values *)

None == <<>>
Some(v) == <<v>>

MemberIds == {"m1", "m2"}
GroupIds == {"g1", "g2"}
MemberNames == {"Ann"}
TeamNames == {"Team", "Crew"}
Roles == {"admin", "member"}

\* member.groupId is optional: undefined when the member is in no group
NoGroup == "undefined"

\* TeamMember, reduced to the fields the store logic reads (id, groupId) and
\* one field standing for the rest of the payload (name)
MemberPayloads == [id : MemberIds, name : MemberNames, groupId : GroupIds \cup {NoGroup}]

\* TeamGroup
GroupPayloads == [id : GroupIds, name : {"Dev"}, order : 0 .. (MaxOrderLen - 1)]

\* the `order` payloads: id lists of bounded length, repeats and ids unknown to
\* the store included
OrdersOver(S) == UNION {[1 .. n -> S] : n \in 0 .. MaxOrderLen}

\* IANA timezone names; "" is what the hook resolves where there is no window
Timezones == {"UTC", "CET"}

\* the `members` argument of useCurrentTeamUser, reduced to the fields the
\* hook reads
HookMemberLists ==
  UNION {[1 .. n -> [id : MemberIds, timezone : Timezones]] : n \in 0 .. MaxHookMembers}

\* what getTeam can answer for this team: the empty team of the spec's
\* scenario, and a team with grouped and ungrouped members
SeedTeams ==
  { [id |-> "t1", name |-> "Team", members |-> <<>>, groups |-> <<>>],
    [id |-> "t1", name |-> "Team",
     members |-> << [id |-> "m1", name |-> "Ann", groupId |-> "g1"],
                    [id |-> "m2", name |-> "Ann", groupId |-> NoGroup] >>,
     groups |-> << [id |-> "g1", name |-> "Dev", order |-> 0],
                   [id |-> "g2", name |-> "Dev", order |-> 1] >>] }

----------------------------------------------------------------------------
(* State *)

VARIABLES
  session,          \* useState<TeamSession | null>
  teamData,         \* the query cache entry { team, role } | undefined
  teamName,         \* useState("") : the name shown in the header
  previousNameRef,  \* useRef("")
  lastRemovalRef,   \* useRef({ id: "", ts: 0 })
  now,              \* Date.now()
  pending,          \* handleMemberDroppedOnGroup calls awaiting updateMember
  isEditingName,    \* useState(false)
  nameRequests,     \* handleSaveName calls awaiting updateTeamNameAction
  storage,          \* sessionStorage: key -> stored text, or no item
  members,          \* client.tsx: useState<TeamMember[]>(team.members)
  state,            \* use-current-team-user.ts: the stored CurrentTeamUserState
  hookMembers,      \* use-current-team-user.ts: the `members` argument
  viewerTimezone,   \* use-current-team-user.ts: useMemo(getUserTimezone)
  visualizer,       \* timezone-visualizer.tsx: members, viewerTimezone,
                    \* selectedAId, selectedBId
  collapsed,        \* page.tsx: the collapsed-groups item of localStorage,
                    \* useState<Set<string>>, and whether the page failed
  client,           \* client.tsx: handleReorder calls awaiting
                    \* reorderMembers, and useRef({ id: "", ts: 0 })
  visitedTeams,     \* use-visited-teams: the stored VisitedTeam[]
  visitClock,       \* use-visited-teams: new Date(), counted in saves
  cardRequests,     \* member-card: removeMember / updateMember calls in flight
  last,             \* observation: the step just taken (kind, payload, toast)
  prevRequests,     \* observation: the requests in flight before that step
  prevData,         \* observation: teamData before the step just taken
  prevMembers,      \* observation: members before the step just taken
  delivered,        \* observation: per member id, the membership events handled
  beforeSave,       \* observation: the shown and the remembered name when the
                    \* last updateTeamName request was started
  removedAt         \* observation: per member id, when a delivery removed it

vars == <<session, teamData, teamName, previousNameRef, lastRemovalRef, now,
          pending, isEditingName, nameRequests, storage,
          members, state, hookMembers, viewerTimezone, visualizer,
          collapsed, client, visitedTeams, visitClock, cardRequests,
          last, prevRequests, prevData, prevMembers, delivered,
          beforeSave, removedAt>>

\* the state of page.tsx's TeamPageClient
pageVars == <<session, teamData, teamName, previousNameRef, lastRemovalRef, now,
              pending, isEditingName, nameRequests, storage>>

\* the header's name editor
editVars == <<isEditingName, nameRequests>>

\* the state of useCurrentTeamUser
userVars == <<state, hookMembers, viewerTimezone>>

\* collapsed groups, client.tsx's requests, and the visited-teams list
sideVars == <<collapsed, client, visitedTeams, visitClock, cardRequests>>

----------------------------------------------------------------------------
(* Array helpers, as the JavaScript methods compute them *)

\* arr.map(f) for the f "x.id === id ? y : x"
ReplaceById(arr, id, y) == [i \in 1 .. Len(arr) |-> IF arr[i].id = id THEN y ELSE arr[i]]

\* arr.some((x) => x.id === id)
SomeId(arr, id) == \E i \in 1 .. Len(arr) : arr[i].id = id

\* arr.filter((x) => x.id !== id)
FilterOutId(arr, id) == SelectSeq(arr, LAMBDA x : x.id # id)

\* arr.find((x) => x.id === id): the first match, or undefined
FindById(arr, id) ==
  IF SomeId(arr, id)
  THEN Some(arr[CHOOSE i \in 1 .. Len(arr) :
                  arr[i].id = id /\ \A j \in 1 .. (i - 1) : arr[j].id # id])
  ELSE None

\* new Map(arr.map((x) => [x.id, x])).get(id): a later entry overwrites an
\* earlier one with the same key
MapGet(arr, id) ==
  IF SomeId(arr, id)
  THEN Some(arr[CHOOSE i \in 1 .. Len(arr) :
                  arr[i].id = id /\ \A j \in (i + 1) .. Len(arr) : arr[j].id # id])
  ELSE None

\* concatenation of a sequence of sequences
RECURSIVE Flatten(_)
Flatten(ss) == IF ss = <<>> THEN <<>> ELSE Head(ss) \o Flatten(Tail(ss))

\* the ids of an array, in order
IdsOf(arr) == [i \in 1 .. Len(arr) |-> arr[i].id]

\* the same, as a set
IdSetOf(arr) == {arr[i].id : i \in 1 .. Len(arr)}

\* the sequence without its i-th element
RemoveAt(seq, i) == SubSeq(seq, 1, i - 1) \o SubSeq(seq, i + 1, Len(seq))

\* how many entries of arr have this id
CountId(arr, id) == Cardinality({i \in 1 .. Len(arr) : arr[i].id = id})

WithTeam(prev, team) == Some([prev[1] EXCEPT !.team = team])

----------------------------------------------------------------------------
(* The store transforms of the realtime reconciler: each is the updater     *)
(* function handed to updateTeamCache, prev |-> next                        *)

\* mutant: the duplicate check is missing
MemberAddedT_NoDuplicateCheck(prev, newMember) ==
  IF prev = None THEN prev
  ELSE WithTeam(prev, [prev[1].team EXCEPT !.members = Append(@, newMember)])

\* the memberAdded updater: no second entry for an id the store holds
MemberAddedT(prev, newMember) ==
  IF prev = None THEN prev
  ELSE IF SomeId(prev[1].team.members, newMember.id) THEN prev
  ELSE WithTeam(prev, [prev[1].team EXCEPT !.members = Append(@, newMember)])

MemberRemovedT(prev, memberId) ==
  IF prev = None THEN prev
  ELSE WithTeam(prev, [prev[1].team EXCEPT !.members = FilterOutId(@, memberId)])

\* mutant: an update for an id the store lacks is inserted
MemberUpdatedT_Upsert(prev, updatedMember) ==
  IF prev = None THEN prev
  ELSE IF SomeId(prev[1].team.members, updatedMember.id)
  THEN WithTeam(prev, [prev[1].team EXCEPT
                         !.members = ReplaceById(@, updatedMember.id, updatedMember)])
  ELSE WithTeam(prev, [prev[1].team EXCEPT !.members = Append(@, updatedMember)])

MemberUpdatedT(prev, updatedMember) ==
  IF prev = None THEN prev
  ELSE WithTeam(prev, [prev[1].team EXCEPT
                         !.members = ReplaceById(@, updatedMember.id, updatedMember)])

\* mutant: the members the order list omits are kept, after the ordered ones
MembersReorderedT_KeepsOmitted(prev, order) ==
  IF prev = None THEN prev
  ELSE LET map == prev[1].team.members
           InOrder(id) == \E i \in 1 .. Len(order) : order[i] = id
       IN WithTeam(prev, [prev[1].team EXCEPT
            !.members = Flatten([i \in 1 .. Len(order) |-> MapGet(map, order[i])])
                        \o SelectSeq(map, LAMBDA m : ~InOrder(m.id))])

\* order.map((id) => map.get(id)).filter(Boolean)
MembersReorderedT(prev, order) ==
  IF prev = None THEN prev
  ELSE LET map == prev[1].team.members
       IN WithTeam(prev, [prev[1].team EXCEPT
            !.members = Flatten([i \in 1 .. Len(order) |-> MapGet(map, order[i])])])

\* mutant: the team is rebuilt from the name alone, without `...prev.team`
NameUpdatedT_DropsLists(prev, name) ==
  IF prev = None THEN prev
  ELSE WithTeam(prev, [prev[1].team EXCEPT !.name = name, !.members = <<>>,
                                           !.groups = <<>>])

NameUpdatedT(prev, name) ==
  IF prev = None THEN prev
  ELSE WithTeam(prev, [prev[1].team EXCEPT !.name = name])

\* mutant: without the `if (!prev) return prev` guard, a store is made up
\* around the new group
GroupCreatedT_SeedsStore(prev, newGroup) ==
  IF prev = None
  THEN Some([team |-> [id |-> "t1", name |-> "", members |-> <<>>,
                       groups |-> <<newGroup>>],
             role |-> "member"])
  ELSE IF SomeId(prev[1].team.groups, newGroup.id) THEN prev
  ELSE WithTeam(prev, [prev[1].team EXCEPT !.groups = Append(@, newGroup)])

GroupCreatedT(prev, newGroup) ==
  IF prev = None THEN prev
  ELSE IF SomeId(prev[1].team.groups, newGroup.id) THEN prev
  ELSE WithTeam(prev, [prev[1].team EXCEPT !.groups = Append(@, newGroup)])

GroupUpdatedT(prev, updatedGroup) ==
  IF prev = None THEN prev
  ELSE WithTeam(prev, [prev[1].team EXCEPT
                         !.groups = ReplaceById(@, updatedGroup.id, updatedGroup)])

\* m.groupId === groupId ? { ...m, groupId: undefined } : m
Unassign(arr, groupId) ==
  [i \in 1 .. Len(arr) |->
     IF arr[i].groupId = groupId
     THEN [arr[i] EXCEPT !.groupId = NoGroup]
     ELSE arr[i]]

\* mutant: the members of the removed group are deleted with it
GroupRemovedT_DeletesMembers(prev, groupId) ==
  IF prev = None THEN prev
  ELSE WithTeam(prev, [prev[1].team EXCEPT
                         !.groups = FilterOutId(@, groupId),
                         !.members = SelectSeq(@, LAMBDA m : m.groupId # groupId)])

GroupRemovedT(prev, groupId) ==
  IF prev = None THEN prev
  ELSE WithTeam(prev, [prev[1].team EXCEPT
                         !.groups = FilterOutId(@, groupId),
                         !.members = Unassign(@, groupId)])

\* order.map((id, index) => group ? { ...group, order: index } : null)
\*      .filter(Boolean): index is the 0-based position in the payload
GroupsReorderedT(prev, order) ==
  IF prev = None THEN prev
  ELSE LET map == prev[1].team.groups
           At(i) == LET group == MapGet(map, order[i])
                    IN IF group = None THEN <<>>
                       ELSE << [group[1] EXCEPT !.order = i - 1] >>
       IN WithTeam(prev, [prev[1].team EXCEPT
            !.groups = Flatten([i \in 1 .. Len(order) |-> At(i)])])

\* the de-dup test of the memberRemoved branch
IsRapidDuplicate(ref, t, memberId) ==
  ref.id = memberId /\ t - ref.ts < DedupWindowMs

\* the memberRemoved branch of onData: what it leaves in the cache and in
\* lastRemovalRef, and the toast it raises
OnMemberRemoved(prev, ref, t, memberId) ==
  IF IsRapidDuplicate(ref, t, memberId)
  THEN [teamData |-> prev, lastRemovalRef |-> ref, toast |-> "none"]
  ELSE IF prev # None /\ FindById(prev[1].team.members, memberId) # None
  THEN [teamData |-> MemberRemovedT(prev, memberId),
        lastRemovalRef |-> [id |-> memberId, ts |-> t],
        toast |-> "success"]
  ELSE [teamData |-> MemberRemovedT(prev, memberId), lastRemovalRef |-> ref,
        toast |-> "none"]

\* onData({ event, data }): the cache, lastRemovalRef and toast after one
\* delivery
OnData(prev, ref, t, event, data) ==
  CASE event = "team.memberAdded" ->
         [teamData |-> MemberAddedT(prev, data), lastRemovalRef |-> ref,
          toast |-> "success"]
    [] event = "team.memberRemoved" -> OnMemberRemoved(prev, ref, t, data)
    [] event = "team.memberUpdated" ->
         [teamData |-> MemberUpdatedT(prev, data), lastRemovalRef |-> ref,
          toast |-> "none"]
    [] event = "team.membersReordered" ->
         [teamData |-> MembersReorderedT(prev, data), lastRemovalRef |-> ref,
          toast |-> "none"]
    [] event = "team.nameUpdated" ->
         [teamData |-> NameUpdatedT(prev, data), lastRemovalRef |-> ref,
          toast |-> "none"]
    [] event = "team.groupCreated" ->
         [teamData |-> GroupCreatedT(prev, data), lastRemovalRef |-> ref,
          toast |-> "none"]
    [] event = "team.groupUpdated" ->
         [teamData |-> GroupUpdatedT(prev, data), lastRemovalRef |-> ref,
          toast |-> "none"]
    [] event = "team.groupRemoved" ->
         [teamData |-> GroupRemovedT(prev, data), lastRemovalRef |-> ref,
          toast |-> "none"]
    [] event = "team.groupsReordered" ->
         [teamData |-> GroupsReorderedT(prev, data), lastRemovalRef |-> ref,
          toast |-> "none"]

\* the payloads an event kind can carry
PayloadsOf(event) ==
  CASE event \in {"team.memberAdded", "team.memberUpdated"} -> MemberPayloads
    [] event = "team.memberRemoved" -> MemberIds
    [] event = "team.membersReordered" -> OrdersOver(MemberIds)
    [] event = "team.nameUpdated" -> TeamNames
    [] event \in {"team.groupCreated", "team.groupUpdated"} -> GroupPayloads
    [] event = "team.groupRemoved" -> GroupIds
    [] event = "team.groupsReordered" -> OrdersOver(GroupIds)

MemberEvents ==
  {"team.memberAdded", "team.memberRemoved", "team.memberUpdated",
   "team.membersReordered"}

GroupEvents ==
  {"team.groupCreated", "team.groupUpdated", "team.groupRemoved",
   "team.groupsReordered"}

RealtimeEvents == MemberEvents \cup {"team.nameUpdated"} \cup GroupEvents

\* whether the updater hands back `prev` itself (or is not called at all)
\* instead of building a new snapshot
KeepsReference(prev, ref, t, event, data) ==
  \/ prev = None
  \/ event = "team.memberAdded" /\ SomeId(prev[1].team.members, data.id)
  \/ event = "team.groupCreated" /\ SomeId(prev[1].team.groups, data.id)
  \/ event = "team.memberRemoved" /\ IsRapidDuplicate(ref, t, data)

----------------------------------------------------------------------------
(* The optimistic group assignment of handleMemberDroppedOnGroup *)

\* members.map((m) => m.id === memberId ? { ...m, groupId } : m)
SetGroup(arr, memberId, groupId) ==
  [i \in 1 .. Len(arr) |->
     IF arr[i].id = memberId
     THEN [arr[i] EXCEPT !.groupId = groupId]
     ELSE arr[i]]

\* the optimistic updater
OptimisticT(prev, memberId, groupId) ==
  IF prev = None THEN prev
  ELSE WithTeam(prev, [prev[1].team EXCEPT !.members = SetGroup(@, memberId, groupId)])

\* mutant: a failed request leaves the optimistic value in the store
RevertT_KeepsOptimistic(prev, memberId, previousGroupId) == prev

\* the updater of the failure branch
RevertT(prev, memberId, previousGroupId) ==
  IF prev = None THEN prev
  ELSE WithTeam(prev, [prev[1].team EXCEPT
                         !.members = SetGroup(@, memberId, previousGroupId)])

----------------------------------------------------------------------------
(* use-current-team-user.ts: the Local Identity Resolver *)

DEFAULT_STATE == [memberId |-> None, source |-> "null", dismissedSuggestions |-> <<>>]

\* JavaScript truthiness of a `string | null`
Truthy(opt) == opt # None /\ opt[1] # ""

\* arr.includes(x)
Includes(arr, x) == \E i \in 1 .. Len(arr) : arr[i] = x

\* mutant: a dismissed member is suggested again
suggestedUser_IgnoresDismissed ==
  IF Truthy(state.memberId) THEN None
  ELSE IF viewerTimezone = "" THEN None
  ELSE LET exactMatches == SelectSeq(hookMembers, LAMBDA m : m.timezone = viewerTimezone)
       IN IF Len(exactMatches) = 1 THEN Some(exactMatches[1]) ELSE None

\* the suggestedUser memo
suggestedUser ==
  IF Truthy(state.memberId) THEN None
  ELSE IF viewerTimezone = "" THEN None
  ELSE LET exactMatches == SelectSeq(hookMembers, LAMBDA m : m.timezone = viewerTimezone)
       IN IF /\ Len(exactMatches) = 1
             /\ ~Includes(state.dismissedSuggestions, exactMatches[1].id)
          THEN Some(exactMatches[1])
          ELSE None

\* the currentUser memo, for a stored state s and member list arr
currentUser(s, arr) ==
  IF ~Truthy(s.memberId) THEN None ELSE FindById(arr, s.memberId[1])

\* mutant: the effect never clears the selection
ClearStaleSelection_Never(s, arr) == s

\* the effect that clears a selection whose member is gone from a non-empty
\* member list
ClearStaleSelection(s, arr) ==
  IF Truthy(s.memberId) /\ currentUser(s, arr) = None /\ Len(arr) > 0
  THEN [s EXCEPT !.memberId = None, !.source = "null"]
  ELSE s

----------------------------------------------------------------------------
(* The client session store: readTeamSession, writeTeamSession,             *)
(* clearTeamSession over sessionStorage                                    *)

\* the team this page shows, and another team of the same browser
TeamId == "t1"
TeamIds == {"t1", "t2"}

TEAM_SESSION_PREFIX == "collab-time-team-session:"

\* mutant: the key does not depend on the team
getTeamSessionKey_SharedKey(teamId) == <<TEAM_SESSION_PREFIX, "t1">>

\* `${TEAM_SESSION_PREFIX}${teamId}`
getTeamSessionKey(teamId) == <<TEAM_SESSION_PREFIX, teamId>>

StorageKeys == {getTeamSessionKey(teamId) : teamId \in TeamIds}

\* a JSON value, by the properties isTeamSession reads: its kind, whether
\* `token` is a string (and which), and its `role`
JsonValue(kind, tokenIsString, token, role) ==
  [kind |-> kind, tokenIsString |-> tokenIsString, token |-> token, role |-> role]

\* JSON values without a token and role: null, a number, a string, an array
JsonScalars ==
  {JsonValue(kind, FALSE, "", "undefined") : kind \in {"null", "number", "string", "array"}}

\* JSON objects: token missing or a number, or a string; role missing, valid,
\* or another string
JsonObjects ==
  {JsonValue("object", FALSE, "", role) : role \in {"undefined", "admin", "member", "owner"}}
  \cup {JsonValue("object", TRUE, "tok", role) :
          role \in {"undefined", "admin", "member", "owner"}}

\* a stored text: empty, not JSON, or the JSON text of a value
RawText(form, value) == [form |-> form, value |-> value]

RawTexts ==
  {RawText("empty", JsonValue("null", FALSE, "", "undefined")),
   RawText("garbage", JsonValue("null", FALSE, "", "undefined"))}
  \cup {RawText("json", v) : v \in JsonScalars \cup JsonObjects}

TeamSessions == [token : {"tok"}, role : Roles]

\* JSON.stringify(session)
Stringify(sess) == RawText("json", JsonValue("object", TRUE, sess.token, sess.role))

\* JSON.parse(raw): the value, or "throws"
JsonParse(raw) == IF raw.form = "json" THEN Some(raw.value) ELSE None

\* mutant: the role is not checked
isTeamSession_AnyRole(value) ==
  IF value.kind = "null" \/ value.kind \notin {"object", "array"} THEN FALSE
  ELSE value.tokenIsString

\* !value || typeof value !== "object" are the refusals; JSON has no falsy
\* object, typeof [] is "object", and an array has neither token nor role
isTeamSession(value) ==
  IF value.kind = "null" \/ value.kind \notin {"object", "array"} THEN FALSE
  ELSE value.tokenIsString /\ (value.role = "admin" \/ value.role = "member")

\* readTeamSession(teamId) on storage `store`: a missing item, an empty text,
\* a text JSON.parse throws on and a value that is no session all give null
readTeamSession(store, teamId) ==
  LET item == store[getTeamSessionKey(teamId)]
  IN IF item = None THEN None
     ELSE IF item[1].form = "empty" THEN None
     ELSE LET parsed == JsonParse(item[1])
          IN IF parsed = None THEN None
             ELSE IF isTeamSession(parsed[1])
             THEN Some([token |-> parsed[1].token, role |-> parsed[1].role])
             ELSE None

\* sessionStorage.setItem(key, JSON.stringify(session))
writeTeamSession(store, teamId, sess) ==
  [store EXCEPT ![getTeamSessionKey(teamId)] = Some(Stringify(sess))]

\* sessionStorage.removeItem(key)
clearTeamSession(store, teamId) ==
  [store EXCEPT ![getTeamSessionKey(teamId)] = None]

----------------------------------------------------------------------------
(* useVisitedTeams: the recently visited teams *)

\* teams visited once each, in the order of their first visit; the teams
\* of TeamIds are the ones visited again, renamed and removed
FreshIds == <<"t3", "t4", "t5", "t6", "t7", "t8", "t9", "t10", "t11", "t12", "t13">>

\* members.length at a later visit; a first visit of FreshIds has 1
MemberCounts == {2}

\* the name argument of saveVisitedTeam: left out, or a team name
NameArgs == {None} \cup {Some(name) : name \in TeamNames}

FindVisited(teams, teamId) ==
  LET found == SelectSeq(teams, LAMBDA t : t.id = teamId)
  IN IF found = <<>> THEN None ELSE Some(found[1])

\* name ?? existingTeam?.name ?? ""
VisitedName(teams, teamId, name) ==
  IF name # None THEN name[1]
  ELSE IF FindVisited(teams, teamId) # None THEN FindVisited(teams, teamId)[1].name
  ELSE ""

\* mutant: the list is never cut
SliceVisited_Unbounded(teams) == teams

\* newTeams.slice(0, MAX_VISITED_TEAMS)
SliceVisited(teams) ==
  SubSeq(teams, 1, IF Len(teams) < MAX_VISITED_TEAMS THEN Len(teams)
                   ELSE MAX_VISITED_TEAMS)

\* the updater of saveVisitedTeam; lastVisited is the instant of the save,
\* the instants numbered in the order of the saves
SaveVisitedT(teams, teamId, memberCount, name, instant) ==
  LET visitedTeam == [id |-> teamId, name |-> VisitedName(teams, teamId, name),
                      memberCount |-> memberCount, lastVisited |-> instant]
      newTeams == SelectSeq(teams, LAMBDA t : t.id # teamId)
  IN SliceVisited(<<visitedTeam>> \o newTeams)

\* how many of FreshIds have been visited: the latest of them is still
\* listed, since only the teams of TeamIds are saved after it
RECURSIVE FreshVisited(_, _)
FreshVisited(teams, k) ==
  IF k = 0 THEN 0
  ELSE IF FindVisited(teams, FreshIds[k]) # None THEN k
  ELSE FreshVisited(teams, k - 1)

----------------------------------------------------------------------------
(* page.tsx: the collapsed groups, loaded from and saved to localStorage *)

\* what the item can hold: an empty text, a text that is no JSON, or the
\* JSON text of an array of group ids, of null, of a number, of a string
\* (given by its characters) or of an object
CollapsedText(form, kind, items) == [form |-> form, kind |-> kind, items |-> items]

CollapsedTexts ==
  {CollapsedText("empty", "none", <<>>), CollapsedText("garbage", "none", <<>>)}
  \cup {CollapsedText("json", "array", items) :
          items \in UNION {[1 .. n -> GroupIds] : n \in 0 .. 2}}
  \cup {CollapsedText("json", kind, <<>>) : kind \in {"null", "number", "object"}}
  \cup {CollapsedText("json", "string", <<"g", "1">>)}

\* JSON.stringify([...collapsedGroups])
StringifyGroups(groups) == CollapsedText("json", "array", groups)

\* new Set(iterable), as the sequence of its entries in insertion order
RECURSIVE NewSet(_)
NewSet(items) ==
  IF items = <<>> THEN <<>>
  ELSE LET rest == NewSet(SubSeq(items, 1, Len(items) - 1))
           x == items[Len(items)]
       IN IF Includes(rest, x) THEN rest ELSE Append(rest, x)

\* the load effect: `if (stored) setCollapsedGroups(new Set(JSON.parse(stored)))`.
\* JSON.parse throws on a text that is no JSON, new Set throws on a number
\* and on an object, takes the characters of a string and is empty for null
LoadCollapsedGroups(stored) ==
  IF stored = None THEN [groups |-> <<>>, failed |-> FALSE]
  ELSE IF stored[1].form = "empty" THEN [groups |-> <<>>, failed |-> FALSE]
  ELSE IF stored[1].form = "garbage" THEN [groups |-> <<>>, failed |-> TRUE]
  ELSE IF stored[1].kind \in {"array", "string"}
  THEN [groups |-> NewSet(stored[1].items), failed |-> FALSE]
  ELSE IF stored[1].kind = "null" THEN [groups |-> <<>>, failed |-> FALSE]
  ELSE [groups |-> <<>>, failed |-> TRUE]

\* the two effects of a mount: the load, then the persist effect writing the
\* set back. When the load throws, whether the persist effect of the same
\* commit still runs (writing the initial empty set) is left open
CollapsedAfterMount(stored) ==
  LET loaded == LoadCollapsedGroups(stored)
  IN IF loaded.failed
     THEN {[stored |-> item, groups |-> <<>>, failed |-> TRUE] :
             item \in {stored, Some(StringifyGroups(<<>>))}}
     ELSE {[stored |-> Some(StringifyGroups(loaded.groups)),
            groups |-> loaded.groups, failed |-> FALSE]}

----------------------------------------------------------------------------
(* timezone-visualizer.tsx: the working-hour masks and their overlap *)

\* new Array(24): the slots of a mask
HoursPerDay == 24
Hours == 0 .. (HoursPerDay - 1)

\* zones of fixed whole-hour offset, and their offset from UTC in hours
VizTimezones == {"UTC", "Etc/GMT-9", "Etc/GMT+8"}

UtcOffset(tz) ==
  CASE tz = "UTC" -> 0
    [] tz = "Etc/GMT-9" -> 9
    [] tz = "Etc/GMT+8" -> 0 - 8

\* convertHourToTimezone(hour, fromTz, toTz): the hour of day in toTz at the
\* instant it is `hour` o'clock in fromTz, in [0, 24)
convertHourToTimezone(hour, fromTz, toTz) ==
  (hour + UtcOffset(toTz) - UtcOffset(fromTz)) % HoursPerDay

\* mutant: the end hour is filled too
FillHours_Inclusive(hours, from, to) ==
  [h \in DOMAIN hours |-> IF from <= h /\ h <= to THEN TRUE ELSE hours[h]]

\* for (let h = from; h < to; h++) hours[h] = true
FillHours(hours, from, to) ==
  [h \in DOMAIN hours |-> hours[h] \/ (from <= h /\ h < to)]

\* new Array(24).fill(false)
NoHours == [h \in Hours |-> FALSE]

\* mutant: a window that wraps in viewer time loses its hours after midnight
MemberHours_NoWrap(member, viewerTz) ==
  LET startInViewerTz ==
        convertHourToTimezone(member.workingHoursStart, member.timezone, viewerTz)
      endInViewerTz ==
        convertHourToTimezone(member.workingHoursEnd, member.timezone, viewerTz)
  IN IF startInViewerTz <= endInViewerTz
     THEN FillHours(NoHours, startInViewerTz, endInViewerTz)
     ELSE FillHours(NoHours, startInViewerTz, HoursPerDay)

\* the body of memberRows' map: the member's mask in viewer-local hours
MemberHours(member, viewerTz) ==
  LET startInViewerTz ==
        convertHourToTimezone(member.workingHoursStart, member.timezone, viewerTz)
      endInViewerTz ==
        convertHourToTimezone(member.workingHoursEnd, member.timezone, viewerTz)
  IN IF startInViewerTz <= endInViewerTz
     THEN FillHours(NoHours, startInViewerTz, endInViewerTz)
     ELSE FillHours(FillHours(NoHours, startInViewerTz, HoursPerDay), 0, endInViewerTz)

\* memberRows
memberRows ==
  IF visualizer.viewerTimezone = "" THEN <<>>
  ELSE [i \in 1 .. Len(visualizer.members) |->
          [member |-> visualizer.members[i],
           hours |-> MemberHours(visualizer.members[i], visualizer.viewerTimezone)]]

\* ids.find((id) => id !== aValid) ?? null
FirstIdNot(ids, aValid) ==
  LET others == SelectSeq(ids, LAMBDA id : Some(id) # aValid)
  IN IF others = <<>> THEN None ELSE Some(others[1])

\* mutant: a stored second selection is taken without comparing it with
\* the first
activeIds_SameAllowed ==
  LET ids == IdsOf(visualizer.members)
      aValid == IF /\ Truthy(visualizer.selectedAId)
                   /\ Includes(ids, visualizer.selectedAId[1])
                THEN visualizer.selectedAId
                ELSE IF ids = <<>> THEN None ELSE Some(ids[1])
      bValid == IF /\ Truthy(visualizer.selectedBId)
                   /\ Includes(ids, visualizer.selectedBId[1])
                THEN visualizer.selectedBId
                ELSE FirstIdNot(ids, aValid)
  IN <<aValid, bValid>>

\* [activeAId, activeBId]
activeIds ==
  LET ids == IdsOf(visualizer.members)
      aValid == IF /\ Truthy(visualizer.selectedAId)
                   /\ Includes(ids, visualizer.selectedAId[1])
                THEN visualizer.selectedAId
                ELSE IF ids = <<>> THEN None ELSE Some(ids[1])
      bFirst == IF /\ Truthy(visualizer.selectedBId)
                   /\ Includes(ids, visualizer.selectedBId[1])
                   /\ visualizer.selectedBId # aValid
                THEN visualizer.selectedBId
                ELSE FirstIdNot(ids, aValid)
      bValid == IF bFirst = aValid THEN FirstIdNot(ids, aValid) ELSE bFirst
  IN <<aValid, bValid>>

activeAId == activeIds[1]
activeBId == activeIds[2]

\* memberRows.find((row) => row.member.id === id)
RowOf(id) ==
  LET found == SelectSeq(memberRows, LAMBDA row : Some(row.member.id) = id)
  IN IF found = <<>> THEN None ELSE Some(found[1])

selectedRowA == RowOf(activeAId)
selectedRowB == RowOf(activeBId)

\* selectedRow?.hours ?? new Array(24).fill(false)
HoursOrNone(row) == IF row = None THEN NoHours ELSE row[1].hours

\* mutant: an hour counts when either member works
OverlapOf_Either(rowA, rowB) ==
  IF rowA = None \/ rowB = None THEN NoHours
  ELSE [hour \in Hours |-> HoursOrNone(rowA)[hour] \/ HoursOrNone(rowB)[hour]]

\* the overlapHours memo for two selected rows
OverlapOf(rowA, rowB) ==
  IF rowA = None \/ rowB = None THEN NoHours
  ELSE [hour \in Hours |-> HoursOrNone(rowA)[hour] /\ HoursOrNone(rowB)[hour]]

overlapHours == OverlapOf(selectedRowA, selectedRowB)

\* arr.findIndex(Boolean): the first true index, or -1
FindIndexTrue(hours) ==
  IF \E h \in DOMAIN hours : hours[h]
  THEN CHOOSE h \in DOMAIN hours : hours[h] /\ \A g \in DOMAIN hours : hours[g] => h <= g
  ELSE 0 - 1

\* arr.lastIndexOf(true): the last true index, or -1
LastIndexOfTrue(hours) ==
  IF \E h \in DOMAIN hours : hours[h]
  THEN CHOOSE h \in DOMAIN hours : hours[h] /\ \A g \in DOMAIN hours : hours[g] => g <= h
  ELSE 0 - 1

\* mutant: the end is the last true hour itself
OverlapSummary_EndInclusive(hours) ==
  LET start == FindIndexTrue(hours)
      end == LastIndexOfTrue(hours)
  IN IF start = 0 - 1 \/ end = 0 - 1
     THEN [overlap |-> FALSE, start |-> 0, end |-> 0]
     ELSE [overlap |-> TRUE, start |-> start, end |-> end % HoursPerDay]

\* the "Overlap:" text: no overlap, or the two hours handed to formatHour
OverlapSummary(hours) ==
  LET start == FindIndexTrue(hours)
      end == LastIndexOfTrue(hours)
  IN IF start = 0 - 1 \/ end = 0 - 1
     THEN [overlap |-> FALSE, start |-> 0, end |-> 0]
     ELSE [overlap |-> TRUE, start |-> start, end |-> (end + 1) % HoursPerDay]

----------------------------------------------------------------------------
(* Observation: history the formulas read, no part of the program. It is     *)
(* switched on by the initial state: a specification that starts from       *)
(* `last = Unobserved` keeps the program's state only.                      *)

Unobserved == [kind |-> "unobserved", data |-> "", toast |-> "none"]
NoStep == [kind |-> "init", data |-> "", toast |-> "none"]

\* per member id: "none", then "added" once a memberAdded delivery for it was
\* handled, then "removed" once a later memberRemoved delivery was handled; an
\* id that starts "untracked" stays so
DeliveredAfter(kind, data) ==
  CASE kind = "team.memberAdded" ->
         [delivered EXCEPT ![data.id] = IF @ = "none" THEN "added" ELSE @]
    [] kind = "team.memberRemoved" ->
         [delivered EXCEPT ![data] = IF @ = "added" THEN "removed" ELSE @]
    [] OTHER -> delivered

\* the removals are not tracked; no removal was handled yet
NoRemovals == <<>>
NoRemovalYet == [id \in MemberIds |-> [at |-> -1, was |-> -1]]

\* per member id: `at` is the time of the latest memberRemoved delivery
\* that removed the member from the store (-1: none yet), `was` is what
\* `at` held before the last step
RemovedAtAfter(kind, data, toast) ==
  IF removedAt = NoRemovals THEN removedAt
  ELSE [id \in MemberIds |->
          [at |-> IF /\ kind = "team.memberRemoved" /\ data = id
                     /\ teamData # None /\ teamData' # None
                     /\ SomeId(teamData[1].team.members, id)
                     /\ ~SomeId(teamData'[1].team.members, id)
                  THEN now ELSE removedAt[id].at,
           was |-> removedAt[id].at]]

\* what can be typed into the name input
TypedNames == TeamNames \cup {" Crew ", ""}

\* String.prototype.trim on the texts above
Trim(text) == IF text = " Crew " THEN "Crew" ELSE text

\* the names are not tracked; no request was started yet
NoSave == [shown |-> "untracked", remembered |-> "untracked"]
NoSaveYet == [shown |-> "", remembered |-> ""]

\* handleSaveName, called now, passes its guards and starts a request
SaveStarts ==
  /\ teamData # None /\ teamData[1].role = "admin"
  /\ session # None
  /\ Trim(teamName) # previousNameRef
  /\ Len(nameRequests) < MaxPending

\* records the step taken and the stores it started from
Observe(kind, data, toast) ==
  IF last.kind = "unobserved"
  THEN UNCHANGED <<last, prevRequests, prevData, prevMembers, delivered, beforeSave, removedAt>>
  ELSE /\ last' = [kind |-> kind, data |-> data, toast |-> toast]
       /\ beforeSave' = IF kind = "handleSaveName" /\ SaveStarts /\ beforeSave # NoSave
                        THEN [shown |-> teamName, remembered |-> previousNameRef]
                        ELSE beforeSave
       /\ prevRequests' = <<pending, nameRequests>>
       /\ prevData' = teamData
       /\ prevMembers' = members
       /\ delivered' = DeliveredAfter(kind, data)
       /\ removedAt' = RemovedAtAfter(kind, data, toast)

----------------------------------------------------------------------------
(* Effects *)

\* useEffect(..., [team]): when the cache holds a new team object the header
\* name and previousNameRef follow team.name; `shown` and `ref` are the
\* values the handler itself left
SyncTeamName(next, isNew, shown, ref) ==
  IF isNew /\ next # None
  THEN /\ teamName' = next[1].team.name
       /\ previousNameRef' = next[1].team.name
  ELSE /\ teamName' = shown
       /\ previousNameRef' = ref

----------------------------------------------------------------------------
(* Initial states *)

\* page.tsx has mounted and nobody has authenticated; client.tsx is not
\* mounted
PageInit ==
  /\ session = None
  /\ teamData = None
  /\ teamName = ""
  /\ previousNameRef = ""
  /\ lastRemovalRef = [id |-> "", ts |-> 0]
  /\ now = 0
  /\ pending = <<>>
  /\ isEditingName = FALSE
  /\ nameRequests = <<>>
  /\ storage = [key \in StorageKeys |-> None]

\* nothing persisted by an earlier visit but the empty collapsed set the
\* page wrote when it mounted; client.tsx has no request in flight
SideInit ==
  /\ collapsed = [stored |-> Some(StringifyGroups(<<>>)), groups |-> <<>>,
                  failed |-> FALSE]
  /\ client = [reorders |-> <<>>, lastRemovalRef |-> [id |-> "", ts |-> 0]]
  /\ visitedTeams = <<>>
  /\ visitClock = 0
  /\ cardRequests = <<>>

\* the hook has mounted with no stored state, no members and no window
UserInit ==
  /\ state = DEFAULT_STATE
  /\ hookMembers = <<>>
  /\ viewerTimezone = ""
  /\ visualizer = [members |-> <<>>, viewerTimezone |-> "",
                   selectedAId |-> None, selectedBId |-> None]
  /\ SideInit

NoHistory ==
  /\ prevRequests = <<<<>>, <<>>>>
  /\ prevData = None
  /\ prevMembers = <<>>
  /\ delivered = [id \in MemberIds |-> "untracked"]
  /\ beforeSave = NoSave
  /\ removedAt = NoRemovals

Init == PageInit /\ UserInit /\ members = <<>> /\ last = Unobserved /\ NoHistory

InitObserved == PageInit /\ UserInit /\ members = <<>> /\ last = NoStep /\ NoHistory

\* observed, the names at the start of a save tracked
InitRename ==
  /\ PageInit
  /\ UserInit
  /\ members = <<>>
  /\ last = NoStep
  /\ prevRequests = <<<<>>, <<>>>>
  /\ prevData = None
  /\ prevMembers = <<>>
  /\ delivered = [id \in MemberIds |-> "untracked"]
  /\ beforeSave = NoSaveYet
  /\ removedAt = NoRemovals

\* observed, the deliveries of membership events tracked per member id
InitDeliveries ==
  /\ PageInit
  /\ UserInit
  /\ members = <<>>
  /\ last = NoStep
  /\ prevRequests = <<<<>>, <<>>>>
  /\ prevData = None
  /\ prevMembers = <<>>
  /\ delivered = [id \in MemberIds |-> "none"]
  /\ beforeSave = NoSave
  /\ removedAt = NoRemovals

\* observed, the removing deliveries tracked per member id
InitRemovals ==
  /\ PageInit
  /\ UserInit
  /\ members = <<>>
  /\ last = NoStep
  /\ prevRequests = <<<<>>, <<>>>>
  /\ prevData = None
  /\ prevMembers = <<>>
  /\ delivered = [id \in MemberIds |-> "untracked"]
  /\ beforeSave = NoSave
  /\ removedAt = NoRemovalYet

\* observed, sessionStorage holding whatever an earlier page, an older
\* version or the user left in it
InitStored ==
  /\ session = None
  /\ teamData = None
  /\ teamName = ""
  /\ previousNameRef = ""
  /\ lastRemovalRef = [id |-> "", ts |-> 0]
  /\ now = 0
  /\ pending = <<>>
  /\ isEditingName = FALSE
  /\ nameRequests = <<>>
  /\ storage \in [StorageKeys -> {None} \cup {Some(raw) : raw \in RawTexts}]
  /\ UserInit
  /\ members = <<>>
  /\ last = NoStep
  /\ NoHistory

\* observed, the page about to load over whatever an earlier page, an older
\* version or the user left in the collapsed-groups item
InitCollapsed ==
  /\ PageInit
  /\ state = DEFAULT_STATE
  /\ hookMembers = <<>>
  /\ viewerTimezone = ""
  /\ visualizer = [members |-> <<>>, viewerTimezone |-> "",
                   selectedAId |-> None, selectedBId |-> None]
  /\ \E item \in {None} \cup {Some(text) : text \in CollapsedTexts} :
       collapsed = [stored |-> item, groups |-> <<>>, failed |-> FALSE]
  /\ client = [reorders |-> <<>>, lastRemovalRef |-> [id |-> "", ts |-> 0]]
  /\ visitedTeams = <<>>
  /\ visitClock = 0
  /\ cardRequests = <<>>
  /\ members = <<>>
  /\ last = [kind |-> "init", data |-> collapsed.stored, toast |-> "none"]
  /\ NoHistory

\* observed, no team visited yet
InitVisited ==
  /\ PageInit
  /\ UserInit
  /\ members = <<>>
  /\ last = NoStep
  /\ NoHistory

\* both components mounted, client.tsx with the team it was rendered with
InitBoth ==
  /\ PageInit
  /\ UserInit
  /\ \E team \in SeedTeams : members = team.members
  /\ last = NoStep
  /\ NoHistory

----------------------------------------------------------------------------
(* useVisitedTeams: its three updates *)

saveVisitedTeam(teamId, memberCount, name) ==
  /\ visitedTeams' = SaveVisitedT(visitedTeams, teamId, memberCount, name,
                                  visitClock + 1)
  /\ visitClock' = visitClock + 1
  /\ UNCHANGED <<pageVars, members, userVars, visualizer, collapsed, client,
                 cardRequests>>
  /\ Observe("saveVisitedTeam",
             [teamId |-> teamId, name |-> name, before |-> visitedTeams], "none")

\* a team never visited before: the page saves it with the fetched name
saveFreshTeam ==
  LET k == FreshVisited(visitedTeams, Len(FreshIds)) + 1
  IN /\ k <= MaxFresh
     /\ k <= Len(FreshIds)
     /\ saveVisitedTeam(FreshIds[k], 1, Some("Team"))

\* a team of TeamIds visited, for the first time or again
saveKnownTeam(teamId, memberCount, name) ==
  /\ visitClock - FreshVisited(visitedTeams, Len(FreshIds)) < MaxRevisits
  /\ saveVisitedTeam(teamId, memberCount, name)

updateTeamName(teamId, name) ==
  /\ visitedTeams' = [i \in 1 .. Len(visitedTeams) |->
                        IF visitedTeams[i].id = teamId
                        THEN [visitedTeams[i] EXCEPT !.name = name]
                        ELSE visitedTeams[i]]
  /\ UNCHANGED <<pageVars, members, userVars, visualizer, collapsed, client,
                 visitClock, cardRequests>>
  /\ Observe("updateTeamName",
             [teamId |-> teamId, name |-> name, before |-> visitedTeams], "none")

removeVisitedTeam(teamId) ==
  /\ visitedTeams' = SelectSeq(visitedTeams, LAMBDA t : t.id # teamId)
  /\ UNCHANGED <<pageVars, members, userVars, visualizer, collapsed, client,
                 visitClock, cardRequests>>
  /\ Observe("removeVisitedTeam",
             [teamId |-> teamId, name |-> None, before |-> visitedTeams], "none")

----------------------------------------------------------------------------
(* Session and fetch *)

handleAuthenticated(role) ==
  /\ session = None
  /\ session' = Some([token |-> "tok", role |-> role])
  /\ storage' = writeTeamSession(storage, TeamId, [token |-> "tok", role |-> role])
  /\ UNCHANGED <<teamData, teamName, previousNameRef, lastRemovalRef, now, pending,
                 editVars, members, userVars, visualizer, sideVars>>
  /\ Observe("handleAuthenticated", role, "success")

\* useTeamQuery resolves: the cache entry is created from the server's answer
FetchResolved(team) ==
  /\ session # None
  /\ teamData = None
  /\ teamData' = Some([team |-> team, role |-> session[1].role])
  /\ SyncTeamName(teamData', TRUE, teamName, previousNameRef)
  /\ UNCHANGED <<session, lastRemovalRef, now, pending, editVars, storage, members,
                 userVars, visualizer, sideVars>>
  /\ Observe("fetch", team.id, "none")

\* the failures getTeam reports
FetchErrors == {"unauthorized", "not_found"}

\* session?.token ?? null
sessionToken == IF session = None THEN None ELSE Some(session[1].token)

\* what the component renders: the authentication gate while there is no
\* session, a loading screen while there is no team, else the team
View ==
  IF session = None THEN "auth"
  ELSE IF teamData = None THEN "loading"
  ELSE "team"

\* mutant: the persisted session survives the failure
FetchFailed_KeepsStorage(error) ==
  /\ session # None
  /\ session' = None
  /\ teamName' = ""
  /\ previousNameRef' = ""
  /\ teamData' = None
  /\ UNCHANGED <<lastRemovalRef, now, pending, editVars, storage, members, userVars, visualizer, sideVars>>
  /\ Observe("fetch.failed", error, "error")

\* useTeamQuery reports an error: the teamError effect clears the persisted
\* session, the session state and the shown name; with the token gone the
\* query has no data
FetchFailed(error) ==
  /\ session # None
  /\ storage' = clearTeamSession(storage, TeamId)
  /\ session' = None
  /\ teamName' = ""
  /\ previousNameRef' = ""
  /\ teamData' = None
  /\ UNCHANGED <<lastRemovalRef, now, pending, editVars, members, userVars, visualizer, sideVars>>
  /\ Observe("fetch.failed", error, "error")

\* the page is loaded again in the same tab: component state starts over,
\* sessionStorage and localStorage are kept, and the mount effects take the
\* stored collapsed groups and the stored session
Mount ==
  /\ session' = readTeamSession(storage, TeamId)
  /\ teamData' = None
  /\ teamName' = ""
  /\ previousNameRef' = ""
  /\ lastRemovalRef' = [id |-> "", ts |-> 0]
  /\ pending' = <<>>
  /\ isEditingName' = FALSE
  /\ nameRequests' = <<>>
  /\ \E after \in CollapsedAfterMount(collapsed.stored) : collapsed' = after
  /\ UNCHANGED <<now, storage, members, userVars, visualizer, client, visitedTeams,
                 visitClock, cardRequests>>
  /\ Observe("mount", collapsed.stored, "none")

\* mutant: every member counts as visible, collapsed or not
TotalVisibleAfter_CountsAll(arr, groups, groupId) == Len(arr)

\* members that stay visible when groupId is collapsed on top of `groups`:
\* the ungrouped ones and those of groups not collapsed
TotalVisibleAfter(arr, groups, groupId) ==
  Len(SelectSeq(arr, LAMBDA m : m.groupId = NoGroup))
    + Len(SelectSeq(arr, LAMBDA m :
        m.groupId # NoGroup /\ ~Includes(Append(groups, groupId), m.groupId)))

\* toggleGroupCollapse with the persist effect that follows: expanding is
\* always allowed, collapsing only while a member stays visible
toggleGroupCollapse(groupId) ==
  /\ View = "team"
  /\ ~collapsed.failed
  /\ LET prev == collapsed.groups
         next == IF Includes(prev, groupId)
                 THEN SelectSeq(prev, LAMBDA g : g # groupId)
                 ELSE IF TotalVisibleAfter(teamData[1].team.members, prev, groupId) > 0
                 THEN Append(prev, groupId)
                 ELSE prev
     IN collapsed' = [collapsed EXCEPT !.groups = next,
                                       !.stored = Some(StringifyGroups(next))]
  /\ UNCHANGED <<pageVars, members, userVars, visualizer, client, visitedTeams,
                 visitClock, cardRequests>>
  /\ Observe("toggleGroupCollapse",
             [groupId |-> groupId, before |-> collapsed.groups], "none")

\* writeTeamSession(teamId, sess) called for any team of this tab
WriteSession(teamId, sess) ==
  /\ storage' = writeTeamSession(storage, teamId, sess)
  /\ UNCHANGED <<session, teamData, teamName, previousNameRef, lastRemovalRef, now,
                 pending, editVars, members, userVars, visualizer, sideVars>>
  /\ Observe("writeTeamSession",
             [teamId |-> teamId, session |-> Some(sess),
              before |-> [t \in TeamIds |-> readTeamSession(storage, t)]],
             "none")

\* clearTeamSession(teamId) called for any team of this tab
ClearSession(teamId) ==
  /\ storage' = clearTeamSession(storage, teamId)
  /\ UNCHANGED <<session, teamData, teamName, previousNameRef, lastRemovalRef, now,
                 pending, editVars, members, userVars, visualizer, sideVars>>
  /\ Observe("clearTeamSession",
             [teamId |-> teamId, session |-> None,
              before |-> [t \in TeamIds |-> readTeamSession(storage, t)]],
             "none")

Tick ==
  /\ now + TickMs <= MaxNow
  /\ now' = now + TickMs
  /\ UNCHANGED <<session, teamData, teamName, previousNameRef, lastRemovalRef,
                 pending, editVars, storage, members, userVars, visualizer, sideVars>>
  /\ Observe("tick", "", "none")

----------------------------------------------------------------------------
(* Realtime deliveries: useRealtime({ channels, events, onData }) *)

\* one delivery of `event` with payload `data`; the channel list is empty
\* while there is no session
Deliver(event, data) ==
  /\ session # None
  /\ LET r == OnData(teamData, lastRemovalRef, now, event, data)
         isNew == ~KeepsReference(teamData, lastRemovalRef, now, event, data)
         isName == event = "team.nameUpdated"
     IN /\ teamData' = r.teamData
        /\ lastRemovalRef' = r.lastRemovalRef
        /\ SyncTeamName(r.teamData, isNew,
                        IF isName THEN data ELSE teamName,
                        IF isName THEN data ELSE previousNameRef)
        /\ Observe(event, data, r.toast)
  /\ UNCHANGED <<session, now, pending, editVars, storage, members, userVars, visualizer, sideVars>>

memberAdded == \E d \in MemberPayloads : Deliver("team.memberAdded", d)
memberRemoved == \E d \in MemberIds : Deliver("team.memberRemoved", d)
memberUpdated == \E d \in MemberPayloads : Deliver("team.memberUpdated", d)
membersReordered == \E d \in OrdersOver(MemberIds) : Deliver("team.membersReordered", d)
nameUpdated == \E d \in TeamNames : Deliver("team.nameUpdated", d)
groupCreated == \E d \in GroupPayloads : Deliver("team.groupCreated", d)
groupUpdated == \E d \in GroupPayloads : Deliver("team.groupUpdated", d)
groupRemoved == \E d \in GroupIds : Deliver("team.groupRemoved", d)
groupsReordered == \E d \in OrdersOver(GroupIds) : Deliver("team.groupsReordered", d)

----------------------------------------------------------------------------
(* Local handlers: the callbacks the dialogs and cards call after their    *)
(* action succeeded                                                        *)

\* a local handler's cache update, with the effect that follows it
LocalUpdate(kind, data, next, isNew) ==
  /\ teamData' = next
  /\ SyncTeamName(next, isNew, teamName, previousNameRef)
  /\ UNCHANGED <<session, lastRemovalRef, now, pending, editVars, storage, members,
                 userVars, visualizer, sideVars>>
  /\ Observe(kind, data, "none")

handleMemberAdded(newMember) ==
  LocalUpdate("handleMemberAdded", newMember,
    IF teamData = None THEN teamData
    ELSE IF SomeId(teamData[1].team.members, newMember.id) THEN teamData
    ELSE WithTeam(teamData, [teamData[1].team EXCEPT !.members = Append(@, newMember)]),
    teamData # None /\ ~SomeId(teamData[1].team.members, newMember.id))

handleMemberRemoved(memberId) ==
  LocalUpdate("handleMemberRemoved", memberId,
    IF teamData = None THEN teamData
    ELSE WithTeam(teamData, [teamData[1].team EXCEPT !.members = FilterOutId(@, memberId)]),
    teamData # None)

handleMemberUpdated(updatedMember) ==
  LocalUpdate("handleMemberUpdated", updatedMember,
    IF teamData = None THEN teamData
    ELSE WithTeam(teamData, [teamData[1].team EXCEPT
           !.members = ReplaceById(@, updatedMember.id, updatedMember)]),
    teamData # None)

handleGroupAdded(newGroup) ==
  LocalUpdate("handleGroupAdded", newGroup,
    IF teamData = None THEN teamData
    ELSE IF SomeId(teamData[1].team.groups, newGroup.id) THEN teamData
    ELSE WithTeam(teamData, [teamData[1].team EXCEPT !.groups = Append(@, newGroup)]),
    teamData # None /\ ~SomeId(teamData[1].team.groups, newGroup.id))

handleGroupUpdated(updatedGroup) ==
  LocalUpdate("handleGroupUpdated", updatedGroup,
    IF teamData = None THEN teamData
    ELSE WithTeam(teamData, [teamData[1].team EXCEPT
           !.groups = ReplaceById(@, updatedGroup.id, updatedGroup)]),
    teamData # None)

handleGroupRemoved(groupId) ==
  LocalUpdate("handleGroupRemoved", groupId,
    IF teamData = None THEN teamData
    ELSE WithTeam(teamData, [teamData[1].team EXCEPT
           !.groups = FilterOutId(@, groupId),
           !.members = Unassign(@, groupId)]),
    teamData # None)

----------------------------------------------------------------------------
(* member-card: removing and editing a member from its card *)

\* what can stand in the card's name input when Save is pressed
CardNames == MemberNames \cup {"Bea", " "}

\* String.prototype.trim on the texts above
TrimName(text) == IF text = " " THEN "" ELSE text

\* handleRemove up to its await: the request leaves, nothing else changes
handleRemove(memberId) ==
  /\ teamData # None
  /\ SomeId(teamData[1].team.members, memberId)
  /\ Len(cardRequests) < MaxPending
  /\ cardRequests' = Append(cardRequests, [action |-> "removeMember", memberId |-> memberId,
                                           member |-> FindById(teamData[1].team.members, memberId)[1]])
  /\ UNCHANGED <<pageVars, members, userVars, visualizer, collapsed, client,
                 visitedTeams, visitClock>>
  /\ Observe("card.handleRemove", [memberId |-> memberId, before |-> cardRequests], "none")

\* handleSave up to its await: no request for a blank name, otherwise the
\* request with the trimmed name leaves
handleSave(memberId, name) ==
  /\ teamData # None
  /\ SomeId(teamData[1].team.members, memberId)
  /\ Len(cardRequests) < MaxPending
  /\ cardRequests' =
       IF TrimName(name) = "" THEN cardRequests
       ELSE Append(cardRequests,
                   [action |-> "updateMember", memberId |-> memberId,
                    member |-> [FindById(teamData[1].team.members, memberId)[1]
                                  EXCEPT !.name = TrimName(name)]])
  /\ UNCHANGED <<pageVars, members, userVars, visualizer, collapsed, client,
                 visitedTeams, visitClock>>
  /\ Observe("card.handleSave", [memberId |-> memberId, name |-> name,
                                 before |-> cardRequests], "none")

\* mutant: the store is updated whatever the action answered
CardResultT_Optimistic(prev, request, success) ==
  IF request.action = "removeMember"
  THEN MemberRemovedT(prev, request.memberId)
  ELSE MemberUpdatedT(prev, request.member)

\* what the card does to the store with the action's answer: on success
\* onMemberRemoved / onMemberUpdated, which are page.tsx's handleMemberRemoved
\* and handleMemberUpdated (the updaters of the realtime branches); on error
\* nothing
CardResultT(prev, request, success) ==
  IF ~success THEN prev
  ELSE IF request.action = "removeMember"
  THEN MemberRemovedT(prev, request.memberId)
  ELSE MemberUpdatedT(prev, request.member)

\* the toast of the card after the answer
CardToast(request, success) ==
  IF ~success THEN "error"
  ELSE IF request.action = "updateMember" THEN "success" ELSE "none"

\* removeMember / updateMember answered
cardRequestResolved(i, success) ==
  /\ i \in 1 .. Len(cardRequests)
  /\ cardRequests' = RemoveAt(cardRequests, i)
  /\ teamData' = CardResultT(teamData, cardRequests[i], success)
  /\ SyncTeamName(teamData', success /\ teamData # None, teamName, previousNameRef)
  /\ UNCHANGED <<session, lastRemovalRef, now, pending, editVars, storage, members,
                 userVars, visualizer, collapsed, client, visitedTeams, visitClock>>
  /\ Observe("card.resolved",
             [request |-> cardRequests[i], success |-> success, before |-> cardRequests],
             CardToast(cardRequests[i], success))

----------------------------------------------------------------------------
(* client.tsx: the member list kept in component state *)

\* the updater of the memberAdded branch of client.tsx's onData
ClientMemberAddedT(prev, newMember) ==
  IF SomeId(prev, newMember.id) THEN prev ELSE Append(prev, newMember)

\* the updater of the membersReordered branch of client.tsx's onData
ClientMembersReorderedT(prev, order) ==
  Flatten([i \in 1 .. Len(order) |-> MapGet(prev, order[i])])

\* client.tsx onData, event team.memberAdded
clientMemberAdded(newMember) ==
  /\ members' = ClientMemberAddedT(members, newMember)
  /\ UNCHANGED <<pageVars, userVars, visualizer, sideVars>>
  /\ Observe("client.memberAdded", newMember, "success")

\* client.tsx handleMemberAdded
clientHandleMemberAdded(newMember) ==
  /\ members' = IF SomeId(members, newMember.id) THEN members
                ELSE Append(members, newMember)
  /\ UNCHANGED <<pageVars, userVars, visualizer, sideVars>>
  /\ Observe("client.handleMemberAdded", newMember, "none")

\* client.tsx onData, event team.memberRemoved: the de-dup test, then the
\* updater, which notes the removal and raises the toast when it finds the
\* member
clientMemberRemoved(memberId) ==
  /\ IF IsRapidDuplicate(client.lastRemovalRef, now, memberId)
     THEN /\ UNCHANGED <<members, client>>
          /\ Observe("client.memberRemoved", memberId, "none")
     ELSE /\ members' = FilterOutId(members, memberId)
          /\ client' = IF SomeId(members, memberId)
                       THEN [client EXCEPT !.lastRemovalRef = [id |-> memberId, ts |-> now]]
                       ELSE client
          /\ Observe("client.memberRemoved", memberId,
                     IF SomeId(members, memberId) THEN "success" ELSE "none")
  /\ UNCHANGED <<pageVars, userVars, visualizer, collapsed, visitedTeams, visitClock,
                 cardRequests>>

\* the orders a drag can give the list: the same entries, reordered
ReorderingsOf(arr) ==
  {[i \in 1 .. Len(arr) |-> arr[f[i]]] : f \in Permutations(1 .. Len(arr))} \ {arr}

\* handleReorder up to its await: the new order is shown and the request
\* keeps the list it replaced
handleReorder(newOrder) ==
  /\ Len(client.reorders) < MaxPending
  /\ members' = newOrder
  /\ client' = [client EXCEPT !.reorders =
                  Append(@, [previous |-> members, newOrderIds |-> IdsOf(newOrder)])]
  /\ UNCHANGED <<pageVars, userVars, visualizer, collapsed, visitedTeams, visitClock,
                 cardRequests>>
  /\ Observe("client.handleReorder", newOrder, "none")

\* reorderMembersAction answered { success: true }
reorderMembersSucceeded(i) ==
  /\ i \in 1 .. Len(client.reorders)
  /\ client' = [client EXCEPT !.reorders = RemoveAt(@, i)]
  /\ UNCHANGED <<members, pageVars, userVars, visualizer, collapsed, visitedTeams, visitClock,
                 cardRequests>>
  /\ Observe("client.reorder.succeeded", client.reorders[i], "none")

\* mutant: a failed reorder leaves the list as it is
ReorderRevertT_KeepsNewOrder(prev, previous) == prev

\* setMembers(previous)
ReorderRevertT(prev, previous) == previous

\* reorderMembersAction answered { success: false, error }
reorderMembersFailed(i) ==
  /\ i \in 1 .. Len(client.reorders)
  /\ members' = ReorderRevertT(members, client.reorders[i].previous)
  /\ client' = [client EXCEPT !.reorders = RemoveAt(@, i)]
  /\ UNCHANGED <<pageVars, userVars, visualizer, collapsed, visitedTeams, visitClock,
                 cardRequests>>
  /\ Observe("client.reorder.failed", client.reorders[i], "error")

----------------------------------------------------------------------------
(* page.tsx: dropping a member on a group *)

\* mutant: every role that has loaded the team counts as admin
isAdmin_AnyRole == teamData # None

isAdmin == teamData # None /\ teamData[1].role = "admin"

\* handleMemberDroppedOnGroup up to its first await: refused, skipped, or the
\* optimistic write with the request left in flight
handleMemberDroppedOnGroup(memberId, groupId) ==
  LET member == IF teamData = None THEN None
                ELSE FindById(teamData[1].team.members, memberId)
      request == [memberId |-> memberId, groupId |-> groupId,
                  previousGroupId |-> member[1].groupId]
  IN \/ /\ ~isAdmin \/ session = None
        /\ UNCHANGED <<pageVars, members, userVars, visualizer, sideVars>>
        /\ Observe("drop.refused", memberId, "error")
     \/ /\ isAdmin /\ session # None
        /\ IF member = None THEN TRUE ELSE member[1].groupId = groupId
        /\ UNCHANGED <<pageVars, members, userVars, visualizer, sideVars>>
        /\ Observe("drop.skipped", memberId, "none")
     \/ /\ isAdmin /\ session # None
        /\ IF member = None THEN FALSE ELSE member[1].groupId # groupId
        /\ Len(pending) < MaxPending
        /\ teamData' = OptimisticT(teamData, memberId, groupId)
        /\ pending' = Append(pending, request)
        /\ SyncTeamName(teamData', TRUE, teamName, previousNameRef)
        /\ UNCHANGED <<session, lastRemovalRef, now, editVars, storage, members,
                       userVars, visualizer, sideVars>>
        /\ Observe("drop.optimistic", request, "none")

\* updateMember answered { success: true }
updateMemberSucceeded(i) ==
  /\ i \in 1 .. Len(pending)
  /\ pending' = RemoveAt(pending, i)
  /\ UNCHANGED <<session, teamData, teamName, previousNameRef, lastRemovalRef, now,
                 editVars, storage, members, userVars, visualizer, sideVars>>
  /\ Observe("drop.succeeded", pending[i], "success")

\* updateMember answered { success: false, error }
updateMemberFailed(i) ==
  /\ i \in 1 .. Len(pending)
  /\ pending' = RemoveAt(pending, i)
  /\ teamData' = RevertT(teamData, pending[i].memberId, pending[i].previousGroupId)
  /\ SyncTeamName(teamData', teamData # None, teamName, previousNameRef)
  /\ UNCHANGED <<session, lastRemovalRef, now, editVars, storage, members, userVars, visualizer, sideVars>>
  /\ Observe("drop.failed", pending[i], "error")

----------------------------------------------------------------------------
(* page.tsx: editing the team name in the header *)

\* onClick={() => setIsEditingName(true)}: the button is rendered for admins
StartEditingName ==
  /\ View = "team" /\ isAdmin
  /\ ~isEditingName
  /\ isEditingName' = TRUE
  /\ UNCHANGED <<session, teamData, teamName, previousNameRef, lastRemovalRef, now,
                 pending, nameRequests, storage, members, userVars, visualizer, sideVars>>
  /\ Observe("startEditingName", "", "none")

\* onChange={(e) => setTeamName(e.target.value)}
EditName(text) ==
  /\ View = "team" /\ isAdmin
  /\ isEditingName
  /\ teamName' = text
  /\ UNCHANGED <<session, teamData, previousNameRef, lastRemovalRef, now, pending,
                 editVars, storage, members, userVars, visualizer, sideVars>>
  /\ Observe("editName", text, "none")

\* handleSaveName (onBlur, Enter) up to the request it starts
handleSaveName ==
  LET trimmedName == Trim(teamName)
  IN \/ /\ ~isAdmin \/ session = None
        /\ UNCHANGED <<pageVars, members, userVars, visualizer, sideVars>>
        /\ Observe("handleSaveName", teamName, "none")
     \/ /\ isAdmin /\ session # None
        /\ trimmedName = previousNameRef
        /\ isEditingName' = FALSE
        /\ UNCHANGED <<session, teamData, teamName, previousNameRef, lastRemovalRef,
                       now, pending, nameRequests, storage, members, userVars, visualizer, sideVars>>
        /\ Observe("handleSaveName", teamName, "none")
     \/ /\ isAdmin /\ session # None
        /\ trimmedName # previousNameRef
        /\ Len(nameRequests) < MaxPending
        /\ isEditingName' = FALSE
        /\ previousNameRef' = trimmedName
        /\ nameRequests' = Append(nameRequests, trimmedName)
        /\ UNCHANGED <<session, teamData, teamName, lastRemovalRef, now, pending,
                       storage, members, userVars, visualizer, sideVars>>
        /\ Observe("handleSaveName", teamName, "none")

\* handleKeyDown, key Escape
handleKeyDownEscape ==
  /\ View = "team" /\ isAdmin
  /\ isEditingName
  /\ teamName' = previousNameRef
  /\ isEditingName' = FALSE
  /\ UNCHANGED <<session, teamData, previousNameRef, lastRemovalRef, now, pending,
                 nameRequests, storage, members, userVars, visualizer, sideVars>>
  /\ Observe("handleKeyDown.Escape", "", "none")

\* updateTeamNameAction answered: a failure is shown as an error toast, and
\* nothing else is done either way
updateTeamNameResolved(i, success) ==
  /\ i \in 1 .. Len(nameRequests)
  /\ nameRequests' = SubSeq(nameRequests, 1, i - 1)
                       \o SubSeq(nameRequests, i + 1, Len(nameRequests))
  /\ UNCHANGED <<session, teamData, teamName, previousNameRef, lastRemovalRef, now,
                 pending, isEditingName, storage, members, userVars, visualizer, sideVars>>
  /\ Observe("updateTeamName.resolved", nameRequests[i],
             IF success THEN "none" ELSE "error")

----------------------------------------------------------------------------
(* use-current-team-user.ts: the hook's callbacks, each with the effect    *)
(* that runs after the render it causes                                    *)

\* the page renders in a browser: getUserTimezone() is resolved once
Hydrate(timezone) ==
  /\ viewerTimezone = ""
  /\ viewerTimezone' = timezone
  /\ UNCHANGED <<pageVars, members, state, hookMembers, visualizer, sideVars>>
  /\ Observe("hydrate", timezone, "none")

\* the caller renders the hook with another member list
MembersChanged(arr) ==
  /\ arr # hookMembers
  /\ hookMembers' = arr
  /\ state' = ClearStaleSelection(state, arr)
  /\ UNCHANGED <<pageVars, members, viewerTimezone, visualizer, sideVars>>
  /\ Observe("membersChanged",
             [state |-> state, listed |-> currentUser(state, hookMembers) # None],
             "none")

\* the `source` argument of setCurrentUser: left out, or one of the two
SourceArgs == {None, Some("explicit"), Some("suggested")}

\* setState(updater) followed by the stale-selection effect; `arg` is what
\* the callback was called with, `before` what is remembered of the state
\* it was called in
SetState(next, kind, arg, before) ==
  /\ state' = ClearStaleSelection(next, hookMembers)
  /\ UNCHANGED <<pageVars, members, hookMembers, viewerTimezone, visualizer, sideVars>>
  /\ Observe(kind, [arg |-> arg, state |-> before], "none")

\* the `source` parameter with its default: None is the argument left out
SourceOrDefault(source) == IF source = None THEN "explicit" ELSE source[1]

\* mutant: the source is stored even when the member id is null
SetCurrentUserT_KeepsSource(prev, memberId, source) ==
  [prev EXCEPT !.memberId = memberId, !.source = SourceOrDefault(source)]

\* the updater of setCurrentUser
SetCurrentUserT(prev, memberId, source) ==
  [prev EXCEPT !.memberId = memberId,
               !.source = IF Truthy(memberId) THEN SourceOrDefault(source) ELSE "null"]

setCurrentUser(memberId, source) ==
  SetState(SetCurrentUserT(state, memberId, source), "setCurrentUser",
           [memberId |-> memberId, source |-> source], "")

\* mutant: clearing the selection resets the whole stored state
clearCurrentUser_ResetsAll ==
  SetState(DEFAULT_STATE, "clearCurrentUser", "",
           [dismissedSuggestions |-> state.dismissedSuggestions])

clearCurrentUser ==
  SetState([state EXCEPT !.memberId = None, !.source = "null"], "clearCurrentUser", "",
           [dismissedSuggestions |-> state.dismissedSuggestions])

dismissSuggestion(memberId) ==
  /\ Len(state.dismissedSuggestions) < MaxDismissed
  /\ SetState([state EXCEPT !.dismissedSuggestions = Append(@, memberId)],
              "dismissSuggestion", memberId, state)

\* setCurrentUser(memberId, "suggested")
acceptSuggestion(memberId) ==
  SetState(SetCurrentUserT(state, Some(memberId), Some("suggested")),
           "acceptSuggestion", memberId, "")

----------------------------------------------------------------------------
(* Specifications *)

SessionSteps ==
  \/ \E role \in Roles : handleAuthenticated(role)
  \/ \E team \in SeedTeams : FetchResolved(team)

MemberDeliveries ==
  \/ memberAdded
  \/ memberRemoved
  \/ memberUpdated
  \/ membersReordered

GroupDeliveries ==
  \/ groupCreated
  \/ groupUpdated
  \/ groupRemoved
  \/ groupsReordered

LocalMemberSteps ==
  \/ \E d \in MemberPayloads : handleMemberAdded(d)
  \/ \E d \in MemberIds : handleMemberRemoved(d)
  \/ \E d \in MemberPayloads : handleMemberUpdated(d)

LocalGroupSteps ==
  \/ \E d \in GroupPayloads : handleGroupAdded(d)
  \/ \E d \in GroupPayloads : handleGroupUpdated(d)
  \/ \E d \in GroupIds : handleGroupRemoved(d)

\* page.tsx's store under every realtime event and every local handler, in
\* any order, any number of times
Next ==
  \/ SessionSteps
  \/ Tick
  \/ MemberDeliveries
  \/ nameUpdated
  \/ GroupDeliveries
  \/ LocalMemberSteps
  \/ LocalGroupSteps

Spec == Init /\ [][Next]_vars

\* the stores that additions, a removal of a group and renames build from
\* the seeds
NextStore ==
  \/ SessionSteps
  \/ memberAdded
  \/ groupCreated
  \/ groupRemoved
  \/ nameUpdated

SpecStore == Init /\ [][NextStore]_vars

\* events and local handlers before and after the fetch has seeded the
\* store, observed
NextUnseeded ==
  \/ SessionSteps
  \/ memberAdded
  \/ groupCreated
  \/ nameUpdated
  \/ \E d \in MemberPayloads : handleMemberAdded(d)
  \/ \E d \in MemberIds : handleMemberRemoved(d)

SpecUnseeded == InitObserved /\ [][NextUnseeded]_vars

\* the member cards: removals and edits, their requests answered either
\* way, between removals of the same members by event, observed
NextCard ==
  \/ SessionSteps
  \/ \E id \in MemberIds : handleRemove(id)
  \/ \E id \in MemberIds, name \in CardNames : handleSave(id, name)
  \/ \E i \in 1 .. MaxPending, success \in BOOLEAN : cardRequestResolved(i, success)
  \/ memberRemoved

SpecCard == InitObserved /\ [][NextCard]_vars

\* the member list under the member events and handlers, observed
NextMembers ==
  \/ SessionSteps
  \/ Tick
  \/ MemberDeliveries
  \/ LocalMemberSteps

SpecMembers == InitObserved /\ [][NextMembers]_vars

\* reordering and updating members, by event and by handler, observed
NextEdits ==
  \/ SessionSteps
  \/ memberUpdated
  \/ membersReordered
  \/ \E d \in MemberPayloads : handleMemberUpdated(d)

SpecEdits == InitObserved /\ [][NextEdits]_vars

\* groups created, reordered and removed, by event and by handler, observed;
\* memberUpdated moves members between groups
NextGroups ==
  \/ SessionSteps
  \/ memberUpdated
  \/ groupCreated
  \/ groupsReordered
  \/ groupRemoved
  \/ \E d \in GroupIds : handleGroupRemoved(d)

SpecGroups == InitObserved /\ [][NextGroups]_vars

\* the membership events alone, redelivered at any distance, observed
NextDeliveries ==
  \/ SessionSteps
  \/ Tick
  \/ memberAdded
  \/ memberRemoved

SpecDeliveries == InitDeliveries /\ [][NextDeliveries]_vars

\* the same steps, the removing deliveries tracked
SpecRemovals == InitRemovals /\ [][NextDeliveries]_vars

\* nothing but additions of members, in both components, observed
NextAdds ==
  \/ SessionSteps
  \/ memberAdded
  \/ \E d \in MemberPayloads : handleMemberAdded(d)
  \/ \E d \in MemberPayloads : clientMemberAdded(d)
  \/ \E d \in MemberPayloads : clientHandleMemberAdded(d)

SpecAdds == InitBoth /\ [][NextAdds]_vars

\* client.tsx: reorders by drag, their requests resolving either way,
\* between membership events, observed
NextReorder ==
  \/ Tick
  \/ \E d \in MemberPayloads : clientMemberAdded(d)
  \/ \E d \in MemberIds : clientMemberRemoved(d)
  \/ \E newOrder \in ReorderingsOf(members) : handleReorder(newOrder)
  \/ \E i \in 1 .. MaxPending : reorderMembersSucceeded(i)
  \/ \E i \in 1 .. MaxPending : reorderMembersFailed(i)

SpecReorder == InitBoth /\ [][NextReorder]_vars

\* drops of members on groups, their requests resolving either way, between
\* realtime events that touch the same members and groups, observed
NextDrop ==
  \/ SessionSteps
  \/ \E m \in MemberIds, g \in GroupIds : handleMemberDroppedOnGroup(m, g)
  \/ \E i \in 1 .. MaxPending : updateMemberSucceeded(i)
  \/ \E i \in 1 .. MaxPending : updateMemberFailed(i)
  \/ memberUpdated
  \/ memberRemoved
  \/ groupRemoved

SpecDrop == InitObserved /\ [][NextDrop]_vars

\* what an admin and a member can do to the team from the header and by
\* drag and drop, observed
NextAdmin ==
  \/ SessionSteps
  \/ StartEditingName
  \/ \E text \in TypedNames : EditName(text)
  \/ handleSaveName
  \/ handleKeyDownEscape
  \/ \E i \in 1 .. MaxPending, success \in BOOLEAN : updateTeamNameResolved(i, success)
  \/ \E m \in MemberIds, g \in GroupIds : handleMemberDroppedOnGroup(m, g)
  \/ \E i \in 1 .. MaxPending : updateMemberSucceeded(i)
  \/ \E i \in 1 .. MaxPending : updateMemberFailed(i)
  \/ nameUpdated

SpecAdmin == InitObserved /\ [][NextAdmin]_vars

\* the name editor and the answers to its requests, observed
NextRename ==
  \/ SessionSteps
  \/ StartEditingName
  \/ \E text \in TypedNames : EditName(text)
  \/ handleSaveName
  \/ handleKeyDownEscape
  \/ \E i \in 1 .. MaxPending, success \in BOOLEAN : updateTeamNameResolved(i, success)
  \/ nameUpdated

SpecRename == InitRename /\ [][NextRename]_vars

\* the session of this page: loaded at mount, written on authentication,
\* cleared when the fetch fails; observed
NextSession ==
  \/ Mount
  \/ SessionSteps
  \/ \E error \in FetchErrors : FetchFailed(error)
  \/ nameUpdated

SpecSession == InitStored /\ [][NextSession]_vars

\* the visited teams: saved, renamed and removed, observed
NextVisited ==
  \/ saveFreshTeam
  \/ \E teamId \in TeamIds, memberCount \in MemberCounts, name \in NameArgs :
       saveKnownTeam(teamId, memberCount, name)
  \/ \E teamId \in TeamIds, name \in TeamNames : updateTeamName(teamId, name)
  \/ \E teamId \in TeamIds : removeVisitedTeam(teamId)

SpecVisited == InitVisited /\ [][NextVisited]_vars

\* the collapsed groups: loaded at mount, toggled while the team is shown,
\* observed
NextCollapsed ==
  \/ Mount
  \/ SessionSteps
  \/ memberUpdated
  \/ \E groupId \in GroupIds : toggleGroupCollapse(groupId)

SpecCollapsed == InitCollapsed /\ [][NextCollapsed]_vars

\* the session store under writes and clears for several teams, observed
NextSessionStore ==
  \/ \E teamId \in TeamIds, sess \in TeamSessions : WriteSession(teamId, sess)
  \/ \E teamId \in TeamIds : ClearSession(teamId)

SpecSessionStore == InitStored /\ [][NextSessionStore]_vars

\* the Local Identity Resolver under its callbacks and changing member lists
NextUser ==
  \/ \E tz \in Timezones : Hydrate(tz)
  \/ \E arr \in HookMemberLists : MembersChanged(arr)
  \/ \E id \in MemberIds, source \in SourceArgs : setCurrentUser(Some(id), source)
  \/ \E source \in SourceArgs : setCurrentUser(None, source)
  \/ clearCurrentUser
  \/ \E id \in MemberIds : dismissSuggestion(id)
  \/ \E id \in MemberIds : acceptSuggestion(id)

SpecUser == Init /\ [][NextUser]_vars

\* the same, observed
SpecUserObserved == InitObserved /\ [][NextUser]_vars

----------------------------------------------------------------------------
(* timezone-visualizer.tsx: the component's steps *)

\* ids, and zone and working hours, of the members the visualizer is given
VizIds == {"v1", "v2", "v3"}

VizProfiles ==
  { [timezone |-> "UTC", workingHoursStart |-> 9, workingHoursEnd |-> 17],
    [timezone |-> "Etc/GMT-9", workingHoursStart |-> 9, workingHoursEnd |-> 17],
    [timezone |-> "UTC", workingHoursStart |-> 17, workingHoursEnd |-> 9],
    [timezone |-> "Etc/GMT+8", workingHoursStart |-> 0, workingHoursEnd |-> 22] }

\* a member, reduced to the fields the visualizer reads
VizMember(id, profile) ==
  [id |-> id, timezone |-> profile.timezone,
   workingHoursStart |-> profile.workingHoursStart,
   workingHoursEnd |-> profile.workingHoursEnd]

\* the useState initialisers: the first member, and the first other member
InitialSelectedAId(ms) == IF ms = <<>> THEN None ELSE Some(ms[1].id)
InitialSelectedBId(ms) == FirstIdNot(IdsOf(ms), InitialSelectedAId(ms))

\* the component mounts again with the members it is given
VizMount ==
  /\ visualizer' = [visualizer EXCEPT
                      !.selectedAId = InitialSelectedAId(visualizer.members),
                      !.selectedBId = InitialSelectedBId(visualizer.members)]
  /\ UNCHANGED <<pageVars, members, userVars, sideVars>>
  /\ UNCHANGED <<last, prevRequests, prevData, prevMembers, delivered, beforeSave, removedAt>>

\* useClientValue: after hydration the browser's zone replaces ""
VizHydrate(timezone) ==
  /\ visualizer.viewerTimezone = ""
  /\ visualizer' = [visualizer EXCEPT !.viewerTimezone = timezone]
  /\ UNCHANGED <<pageVars, members, userVars, sideVars>>
  /\ UNCHANGED <<last, prevRequests, prevData, prevMembers, delivered, beforeSave, removedAt>>

\* the page renders the visualizer with another member list
VizMembersChanged(ms) ==
  /\ ms # visualizer.members
  /\ visualizer' = [visualizer EXCEPT !.members = ms]
  /\ UNCHANGED <<pageVars, members, userVars, sideVars>>
  /\ UNCHANGED <<last, prevRequests, prevData, prevMembers, delivered, beforeSave, removedAt>>

\* the options of the first select: every member but the one shown in the
\* second
OptionsA == {id \in IdSetOf(visualizer.members) : Some(id) = activeAId \/ Some(id) # activeBId}

\* the options of the second select
OptionsB == {id \in IdSetOf(visualizer.members) : Some(id) = activeBId \/ Some(id) # activeAId}

\* onChange of the first select, rendered once the component shows (a
\* viewer zone is known) and there is more than one member
setSelectedAId(id) ==
  /\ visualizer.viewerTimezone # ""
  /\ Len(visualizer.members) > 1
  /\ id \in OptionsA
  /\ visualizer' = [visualizer EXCEPT !.selectedAId = Some(id)]
  /\ UNCHANGED <<pageVars, members, userVars, sideVars>>
  /\ UNCHANGED <<last, prevRequests, prevData, prevMembers, delivered, beforeSave, removedAt>>

\* onChange of the second select
setSelectedBId(id) ==
  /\ visualizer.viewerTimezone # ""
  /\ Len(visualizer.members) > 1
  /\ id \in OptionsB
  /\ visualizer' = [visualizer EXCEPT !.selectedBId = Some(id)]
  /\ UNCHANGED <<pageVars, members, userVars, sideVars>>
  /\ UNCHANGED <<last, prevRequests, prevData, prevMembers, delivered, beforeSave, removedAt>>

\* the visualizer under member lists that change one member at a time
NextOverlap ==
  \/ VizMount
  \/ \E tz \in VizTimezones : VizHydrate(tz)
  \/ \E id \in VizIds, profile \in VizProfiles :
       /\ id \notin IdSetOf(visualizer.members)
       /\ VizMembersChanged(Append(visualizer.members, VizMember(id, profile)))
  \/ \E i \in 1 .. Len(visualizer.members) :
       VizMembersChanged(RemoveAt(visualizer.members, i))
  \/ \E id \in VizIds : setSelectedAId(id)
  \/ \E id \in VizIds : setSelectedBId(id)

SpecOverlap == Init /\ [][NextOverlap]_vars

\* the selections a component can hold: none, a member, a member long gone
StoredSelections == {None} \cup {Some(id) : id \in VizIds \cup {"gone"}}

\* the lists of all members of VizIds, in every order
VizMemberLists ==
  {ms \in [1 .. Cardinality(VizIds) ->
            {VizMember(id, [timezone |-> "UTC", workingHoursStart |-> 9,
                            workingHoursEnd |-> 17]) : id \in VizIds}] :
     \A i, j \in 1 .. Len(ms) : ms[i].id = ms[j].id => i = j}

\* a full member list in any order with any pair of stored selections; the
\* shorter lists come from removals
InitActive ==
  /\ PageInit
  /\ state = DEFAULT_STATE
  /\ hookMembers = <<>>
  /\ viewerTimezone = ""
  /\ \E ms \in VizMemberLists, a \in StoredSelections, b \in StoredSelections :
       visualizer = [members |-> ms, viewerTimezone |-> "UTC",
                     selectedAId |-> a, selectedBId |-> b]
  /\ SideInit
  /\ members = <<>>
  /\ last = Unobserved
  /\ NoHistory

\* the active pair under every member list and every pair of selections
NextActive ==
  \/ VizMount
  \/ \E i \in 1 .. Len(visualizer.members) :
       VizMembersChanged(RemoveAt(visualizer.members, i))
  \/ \E id \in VizIds : setSelectedAId(id)
  \/ \E id \in VizIds : setSelectedBId(id)

SpecActive == InitActive /\ [][NextActive]_vars

\* two members before hydration, in either order: one whose window starts
\* and ends at the same hour, in any zone, and one with any of the profiles
InitDegenerate ==
  /\ PageInit
  /\ state = DEFAULT_STATE
  /\ hookMembers = <<>>
  /\ viewerTimezone = ""
  /\ \E tz \in VizTimezones, hour \in Hours, profile \in VizProfiles :
       \E ms \in { <<[id |-> "v1", timezone |-> tz, workingHoursStart |-> hour,
                      workingHoursEnd |-> hour], VizMember("v2", profile)>>,
                    <<VizMember("v2", profile),
                      [id |-> "v1", timezone |-> tz, workingHoursStart |-> hour,
                       workingHoursEnd |-> hour]>> } :
         visualizer = [members |-> ms, viewerTimezone |-> "",
                       selectedAId |-> InitialSelectedAId(ms),
                       selectedBId |-> InitialSelectedBId(ms)]
  /\ SideInit
  /\ members = <<>>
  /\ last = Unobserved
  /\ NoHistory

\* the two of them under every viewer zone
NextDegenerate ==
  \/ \E tz \in VizTimezones : VizHydrate(tz)
  \/ VizMount

SpecDegenerate == InitDegenerate /\ [][NextDegenerate]_vars

\* one member of any zone and any working hours, rendered before hydration
InitMask ==
  /\ PageInit
  /\ state = DEFAULT_STATE
  /\ hookMembers = <<>>
  /\ viewerTimezone = ""
  /\ \E tz \in VizTimezones, start \in Hours, end \in Hours :
       visualizer = [members |-> <<[id |-> "v1", timezone |-> tz,
                                    workingHoursStart |-> start,
                                    workingHoursEnd |-> end]>>,
                     viewerTimezone |-> "",
                     selectedAId |-> Some("v1"), selectedBId |-> None]
  /\ SideInit
  /\ members = <<>>
  /\ last = Unobserved
  /\ NoHistory

\* the mask of one member under every viewer zone
NextMask ==
  \/ \E tz \in VizTimezones : VizHydrate(tz)
  \/ VizMount

SpecMask == InitMask /\ [][NextMask]_vars

----------------------------------------------------------------------------
(* What the formulas read *)

\* the member list and group list of a seeded cache entry
MembersIn(data) == data[1].team.members
GroupsIn(data) == data[1].team.groups

\* the set of ids of an array
IdSet(arr) == {arr[i].id : i \in 1 .. Len(arr)}

\* the ids of an array are pairwise distinct
DistinctIds(arr) == \A i, j \in 1 .. Len(arr) : arr[i].id = arr[j].id => i = j

\* `order` restricted to the ids of arr, in payload order
Restricted(order, arr) == SelectSeq(order, LAMBDA id : SomeId(arr, id))

\* the step just taken was of one of these kinds and ran on a seeded store
Stepped(kinds) == last.kind \in kinds /\ prevData # None /\ teamData # None

----------------------------------------------------------------------------
(* C1 *)

\* C1: on a seeded store, under any sequence of memberAdded deliveries and
\* handleMemberAdded calls (page.tsx and client.tsx), no member id occurs
\* twice, the id just added occurs exactly once, and an add whose id was
\* already present leaves the member list as it was.
C1_AddKeepsOneEntry ==
  /\ teamData # None => DistinctIds(MembersIn(teamData))
  /\ DistinctIds(members)
  /\ Stepped({"team.memberAdded", "handleMemberAdded"}) =>
       /\ CountId(MembersIn(teamData), last.data.id) = 1
       /\ SomeId(MembersIn(prevData), last.data.id) =>
            MembersIn(teamData) = MembersIn(prevData)
  /\ last.kind \in {"client.memberAdded", "client.handleMemberAdded"} =>
       /\ CountId(members, last.data.id) = 1
       /\ SomeId(prevMembers, last.data.id) => members = prevMembers

\* a memberAdded delivery for an id the store holds, with other content than
\* the stored entry, has been handled
C1_Witness ==
  /\ Stepped({"team.memberAdded"})
  /\ SomeId(MembersIn(prevData), last.data.id)
  /\ FindById(MembersIn(prevData), last.data.id) # Some(last.data)

----------------------------------------------------------------------------
(* C2 *)

\* C2: after groupRemoved(g), as a realtime event or through
\* handleGroupRemoved, the member list has the same ids in the same order,
\* every member that was in g has groupId undefined and is otherwise as
\* before, every other member is unchanged, and no group with id g remains.
C2_GroupRemovedUnassigns ==
  Stepped({"team.groupRemoved", "handleGroupRemoved"}) =>
    LET before == MembersIn(prevData)
        after == MembersIn(teamData)
    IN /\ IdsOf(after) = IdsOf(before)
       /\ \A i \in 1 .. Len(before) :
            after[i] = IF before[i].groupId = last.data
                       THEN [before[i] EXCEPT !.groupId = NoGroup]
                       ELSE before[i]
       /\ ~SomeId(GroupsIn(teamData), last.data)

\* a groupRemoved delivery for a stored group has been handled while one
\* member was in that group and another in a different group
C2_Witness ==
  /\ Stepped({"team.groupRemoved"})
  /\ SomeId(GroupsIn(prevData), last.data)
  /\ \E i, j \in 1 .. Len(MembersIn(prevData)) :
       /\ MembersIn(prevData)[i].groupId = last.data
       /\ MembersIn(prevData)[j].groupId \in GroupIds \ {last.data}

----------------------------------------------------------------------------
(* C3 *)

\* C3: after membersReordered(order) the member list is `order` restricted to
\* the ids the store held, in payload order, each entry being the stored
\* member of that id: stored members absent from `order` are dropped and
\* unknown ids create nothing. client.tsx's updater gives the same list of
\* ids on every such member list and payload.
C3_ReorderIsRestriction ==
  /\ Stepped({"team.membersReordered"}) =>
       LET before == MembersIn(prevData)
           after == MembersIn(teamData)
       IN /\ IdsOf(after) = Restricted(last.data, before)
          /\ \A i \in 1 .. Len(after) :
               \E j \in 1 .. Len(before) : after[i] = before[j]
  /\ teamData # None =>
       \A order \in OrdersOver(MemberIds) :
         IdsOf(ClientMembersReorderedT(MembersIn(teamData), order))
           = Restricted(order, MembersIn(teamData))

\* the store held [m1, m2] and a membersReordered delivery that omits m1 has
\* left [m2]
C3_Witness ==
  /\ Stepped({"team.membersReordered"})
  /\ IdsOf(MembersIn(prevData)) = <<"m1", "m2">>
  /\ last.data = <<"m2">>
  /\ IdsOf(MembersIn(teamData)) = <<"m2">>

----------------------------------------------------------------------------
(* C4 *)

\* every stored entry with this member id has this groupId, and every other
\* entry is as in `before`
GroupSetTo(before, after, memberId, groupId) ==
  /\ Len(after) = Len(before)
  /\ \A i \in 1 .. Len(before) :
       after[i] = IF before[i].id = memberId
                  THEN [before[i] EXCEPT !.groupId = groupId]
                  ELSE before[i]

\* C4: when an admin drops member m on group g, the store shows m.groupId = g
\* at once, while the updateMember request is still in flight, and the request
\* remembers the groupId m had before that write; when the request fails,
\* m.groupId is set back to that remembered value and an error toast is
\* raised; when it succeeds, the store is left as it is and so m.groupId
\* stays g.
C4_OptimisticDropReverts ==
  /\ Stepped({"drop.optimistic"}) =>
       /\ SomeId(MembersIn(teamData), last.data.memberId)
       /\ GroupSetTo(MembersIn(prevData), MembersIn(teamData),
                     last.data.memberId, last.data.groupId)
       /\ last.data.previousGroupId
            = FindById(MembersIn(prevData), last.data.memberId)[1].groupId
       /\ Includes(pending, last.data)
  /\ Stepped({"drop.failed"}) =>
       /\ GroupSetTo(MembersIn(prevData), MembersIn(teamData),
                     last.data.memberId, last.data.previousGroupId)
       /\ last.toast = "error"
  /\ Stepped({"drop.succeeded"}) =>
       /\ teamData = prevData
       /\ last.toast = "success"

\* the request of a drop that moved a member out of one group into another
\* has failed and the member is back in the group it came from
C4_Witness ==
  /\ Stepped({"drop.failed"})
  /\ last.data.previousGroupId \in GroupIds
  /\ \E i \in 1 .. Len(MembersIn(prevData)) :
       /\ MembersIn(prevData)[i].id = last.data.memberId
       /\ MembersIn(prevData)[i].groupId = last.data.groupId
       /\ MembersIn(teamData)[i].groupId = last.data.previousGroupId

----------------------------------------------------------------------------
(* C6 *)

\* C6: after memberUpdated(u), as a realtime event or through
\* handleMemberUpdated, the member list has the same ids in the same order
\* and the same length, every entry whose id is u.id is exactly u, every
\* other entry is unchanged, and nothing is inserted when the id is not in
\* the store; the store so holds the update applied last.
C6_UpdateReplacesById ==
  Stepped({"team.memberUpdated", "handleMemberUpdated"}) =>
    LET before == MembersIn(prevData)
        after == MembersIn(teamData)
    IN /\ Len(after) = Len(before)
       /\ IdsOf(after) = IdsOf(before)
       /\ \A i \in 1 .. Len(before) :
            after[i] = IF before[i].id = last.data.id THEN last.data
                       ELSE before[i]

\* a memberUpdated delivery has replaced a stored entry of other content,
\* next to a member it left alone
C6_Witness ==
  /\ Stepped({"team.memberUpdated"})
  /\ \E i, j \in 1 .. Len(MembersIn(prevData)) :
       /\ MembersIn(prevData)[i].id = last.data.id
       /\ MembersIn(prevData)[i] # last.data
       /\ MembersIn(prevData)[j].id # last.data.id

----------------------------------------------------------------------------
(* C5 *)

\* C5: once a delivery of memberRemoved(id) has been handled on a seeded
\* store, the store holds no member with that id, however recently an
\* earlier memberRemoved for the same id was handled.
C5_RemovedIsAbsent ==
  Stepped({"team.memberRemoved"}) => ~SomeId(MembersIn(teamData), last.data)

----------------------------------------------------------------------------
(* C7 *)

\* what the cache holds after `event` with payload `data` is handled at time
\* t1 and handled again at time t2
HandledTwice(event, data, t1, t2) ==
  LET once == OnData(teamData, lastRemovalRef, t1, event, data)
  IN OnData(once.teamData, once.lastRemovalRef, t2, event, data).teamData

\* C7: for each of the nine event kinds, every store state and every
\* payload, handling the event a second time, in the same instant or one
\* millisecond later, leaves the cache (team name, member list, group list,
\* role) as the first handling left it.
C7_RedeliveryIdempotent ==
  \A event \in RealtimeEvents :
    \A data \in PayloadsOf(event) :
      \A t2 \in {now, now + 1} :
        HandledTwice(event, data, now, t2)
          = OnData(teamData, lastRemovalRef, now, event, data).teamData

----------------------------------------------------------------------------
(* C8 *)

\* C8: once memberAdded(id) and later memberRemoved(id) have been handled, a
\* redelivery of either event leaves the set of member ids as it was: a
\* redelivered memberAdded(id) does not put the removed member back.
C8_RedeliveryKeepsMembership ==
  /\ ( /\ Stepped({"team.memberAdded"})
       /\ delivered[last.data.id] = "removed" ) =>
       IdSet(MembersIn(teamData)) = IdSet(MembersIn(prevData))
  /\ ( /\ Stepped({"team.memberRemoved"})
       /\ delivered[last.data] = "removed"
       /\ ~SomeId(MembersIn(prevData), last.data) ) =>
       IdSet(MembersIn(teamData)) = IdSet(MembersIn(prevData))

----------------------------------------------------------------------------
(* C9 *)

\* C9: in every store state reached by realtime events and local handlers
\* from a seed with pairwise distinct ids, member ids are pairwise distinct
\* and group ids are pairwise distinct.
C9_IdsStayDistinct ==
  teamData # None =>
    /\ DistinctIds(MembersIn(teamData))
    /\ DistinctIds(GroupsIn(teamData))

----------------------------------------------------------------------------
(* C10 *)

\* the positions of the members whose timezone is the viewer's
ExactMatches == {i \in 1 .. Len(hookMembers) : hookMembers[i].timezone = viewerTimezone}

\* exactly one member matches, no member id is selected, and the matching
\* member's id is not in the dismissed list
SuggestionAllowed ==
  /\ Cardinality(ExactMatches) = 1
  /\ state.memberId = None
  /\ ~Includes(state.dismissedSuggestions,
               hookMembers[CHOOSE i \in ExactMatches : TRUE].id)

\* C10: in every state of the Local Identity Resolver, suggestedUser is
\* non-null only if exactly one member's timezone equals the viewer timezone,
\* no member id is selected and that member's id is not dismissed; and when
\* all three hold and the viewer timezone is not empty, suggestedUser is that
\* member.
C10_SuggestionOnlyForUniqueMatch ==
  /\ suggestedUser # None => SuggestionAllowed
  /\ (SuggestionAllowed /\ viewerTimezone # "") =>
       suggestedUser = Some(hookMembers[CHOOSE i \in ExactMatches : TRUE])

\* a member is suggested although another member is dismissed and a second
\* member, of another timezone, is in the list
C10_Witness ==
  /\ suggestedUser # None
  /\ Len(hookMembers) = 2
  /\ Len(state.dismissedSuggestions) > 0

----------------------------------------------------------------------------
(* C11 *)

\* the member suggested has this id
Suggests(id) == IF suggestedUser = None THEN FALSE ELSE suggestedUser[1].id = id

\* C11: once dismissSuggestion(id) has been called (id is in the dismissed
\* list), suggestedUser is the member with that id in no later state,
\* whatever selections, clears, accepts, further dismissals and member-list
\* changes follow.
C11_DismissalIsPermanent ==
  \A id \in MemberIds :
    [](Includes(state.dismissedSuggestions, id) => [](~Suggests(id)))

\* a dismissed member is the only timezone match, nobody is selected, and
\* nobody is suggested
C11_Witness ==
  /\ viewerTimezone # ""
  /\ state.memberId = None
  /\ Cardinality(ExactMatches) = 1
  /\ Includes(state.dismissedSuggestions,
              hookMembers[CHOOSE i \in ExactMatches : TRUE].id)
  /\ suggestedUser = None

----------------------------------------------------------------------------
(* C12 *)

\* C12: when the member list changes and the member that was selected, and
\* was in the list before, is not in the new list, then once the effect of
\* that render has run the selection (memberId and source) is null, also when
\* the new list is empty.
C12_RemovedSelectionCleared ==
  ( /\ last.kind = "membersChanged"
    /\ Truthy(last.data.state.memberId)
    /\ last.data.listed
    /\ ~SomeId(hookMembers, last.data.state.memberId[1]) ) =>
    /\ state.memberId = None
    /\ state.source = "null"

\* the member list has just changed and the member that was selected, and
\* was in the list before, is not in the new list
SelectedMemberRemoved ==
  /\ last.kind = "membersChanged"
  /\ Truthy(last.data.state.memberId)
  /\ last.data.listed
  /\ ~SomeId(hookMembers, last.data.state.memberId[1])

\* C12, amended: when the selected member is removed and the new member list
\* is not empty, the selection (memberId and source) is null once the effect
\* of that render has run, the dismissed list being kept; and in no state
\* with a non-empty member list does the stored selection name a member
\* that is not in the list.
C12_RemovedSelectionClearedWhenNonEmpty ==
  /\ (SelectedMemberRemoved /\ Len(hookMembers) > 0) =>
       /\ state.memberId = None
       /\ state.source = "null"
       /\ state.dismissedSuggestions = last.data.state.dismissedSuggestions
  /\ (Truthy(state.memberId) /\ Len(hookMembers) > 0) =>
       SomeId(hookMembers, state.memberId[1])

\* the selected member has been removed from a list that keeps another
\* member, and the selection is cleared
C12_Witness ==
  /\ SelectedMemberRemoved
  /\ Len(hookMembers) > 0
  /\ state.memberId = None

----------------------------------------------------------------------------
(* C13 *)

\* the steps of handleMemberDroppedOnGroup before its await, and of
\* handleSaveName
GatedSteps == {"drop.refused", "drop.skipped", "drop.optimistic", "handleSaveName"}

\* C13: a call of handleMemberDroppedOnGroup or handleSaveName made without a
\* session, or while the loaded role is not admin (or no team is loaded),
\* starts no request (updateMember, updateTeamNameAction) and leaves the
\* team store exactly as it was.
C13_MutationsNeedAdmin ==
  ( /\ last.kind \in GatedSteps
    /\ ~(session # None /\ prevData # None /\ prevData[1].role = "admin") ) =>
    /\ teamData = prevData
    /\ <<pending, nameRequests>> = prevRequests

\* a member, with a session and the team loaded, dropped a stored member on
\* another group than its own and was refused
C13_Witness ==
  /\ last.kind = "drop.refused"
  /\ session # None
  /\ session[1].role = "member"
  /\ teamData # None
  /\ \E i \in 1 .. Len(MembersIn(teamData)) :
       /\ MembersIn(teamData)[i].id = last.data
       /\ MembersIn(teamData)[i].groupId = "g1"
  /\ last.toast = "error"

----------------------------------------------------------------------------
(* C14 *)

\* C14: after the team fetch has failed as unauthorized, the persisted
\* session of this team is gone (no item is stored and readTeamSession gives
\* null), the session state is null, the component renders the
\* authentication gate, and no fetch can run: there is no token to fetch
\* with until somebody authenticates again.
C14_UnauthorizedClearsSession ==
  (last.kind = "fetch.failed" /\ last.data = "unauthorized") =>
    /\ storage[getTeamSessionKey(TeamId)] = None
    /\ readTeamSession(storage, TeamId) = None
    /\ session = None
    /\ sessionToken = None
    /\ View = "auth"
    /\ ~ENABLED (\E team \in SeedTeams : FetchResolved(team))
    /\ ~ENABLED (\E error \in FetchErrors : FetchFailed(error))

\* a refetch of a team that was shown has failed as unauthorized
C14_Witness ==
  /\ last.kind = "fetch.failed"
  /\ last.data = "unauthorized"
  /\ prevData # None
  /\ session = None

----------------------------------------------------------------------------
(* C15 *)

\* C15: after the team fetch has failed for another reason than
\* authorization (not found), the in-memory session and the persisted
\* session are still there.
C15_OnlyUnauthorizedClears ==
  (last.kind = "fetch.failed" /\ last.data # "unauthorized") =>
    /\ session # None
    /\ readTeamSession(storage, TeamId) # None

----------------------------------------------------------------------------
(* C16 *)

\* the stored item is the JSON text of an object with a string token and
\* role admin or member
WellFormed(item) ==
  /\ item # None
  /\ item[1].form = "json"
  /\ item[1].value.kind = "object"
  /\ item[1].value.tokenIsString
  /\ item[1].value.role \in Roles

\* C16: for every team and every stored value (no item, empty text, text
\* that is not JSON, JSON that is no object, an object whose token is no
\* string or whose role is neither admin nor member) readTeamSession gives
\* null; it gives a session, with the stored token and role, exactly when
\* the stored value is an object with a string token and role admin or
\* member.
C16_ReadToleratesMalformed ==
  \A teamId \in TeamIds :
    LET item == storage[getTeamSessionKey(teamId)]
        read == readTeamSession(storage, teamId)
    IN /\ read \in {None} \cup {Some(sess) : sess \in TeamSessions}
       /\ read # None <=> WellFormed(item)
       /\ read # None =>
            read[1] = [token |-> item[1].value.token, role |-> item[1].value.role]

\* the page has mounted over an item that is an object with a string token
\* and a role that is no team role: it is read as null and no session is
\* set, while the other team's item is read as a session
C16_Witness ==
  /\ last.kind = "mount"
  /\ session = None
  /\ storage[getTeamSessionKey("t1")] # None
  /\ storage[getTeamSessionKey("t1")][1].form = "json"
  /\ storage[getTeamSessionKey("t1")][1].value.tokenIsString
  /\ storage[getTeamSessionKey("t1")][1].value.role = "owner"
  /\ readTeamSession(storage, "t1") = None
  /\ readTeamSession(storage, "t2") # None

----------------------------------------------------------------------------
(* C17 *)

\* C17: after writeTeamSession(t, s), readTeamSession(t) is s, and after
\* clearTeamSession(t) it is null; either call leaves what readTeamSession
\* gives for every other team as it was. So each team has the session
\* written last for it, or none once cleared.
C17_OneSessionPerTeam ==
  last.kind \in {"writeTeamSession", "clearTeamSession"} =>
    /\ readTeamSession(storage, last.data.teamId) = last.data.session
    /\ \A other \in TeamIds \ {last.data.teamId} :
         readTeamSession(storage, other) = last.data.before[other]

\* a session was written for one team over another role's session while the
\* other team holds its own session
C17_Witness ==
  /\ last.kind = "writeTeamSession"
  /\ last.data.teamId = "t1"
  /\ last.data.before["t1"] # None
  /\ last.data.before["t1"] # last.data.session
  /\ readTeamSession(storage, "t2") # None
  /\ readTeamSession(storage, "t2") # readTeamSession(storage, "t1")

----------------------------------------------------------------------------
(* Working-hour masks *)

\* hour h lies in the window [start, end), which wraps past midnight when
\* start > end
InWindow(h, start, end) ==
  IF start <= end THEN start <= h /\ h < end ELSE h >= start \/ h < end

\* the hour of day in the member's zone when it is h o'clock for the viewer
MemberLocalHour(h, member) ==
  (h + UtcOffset(member.timezone) - UtcOffset(visualizer.viewerTimezone)) % HoursPerDay

\* C18: every row's mask has exactly the slots 0..23, and for a member whose
\* start and end differ the mask is true at viewer-local hour h exactly when
\* the member-local hour of h lies in the member's window [start, end),
\* wrapping past midnight when start > end
C18_MaskIsWindowInViewerHours ==
  \A i \in 1 .. Len(memberRows) :
    LET row == memberRows[i]
        member == row.member
    IN /\ DOMAIN row.hours = Hours
       /\ member.workingHoursStart # member.workingHoursEnd =>
            \A h \in Hours :
              row.hours[h] <=> InWindow(MemberLocalHour(h, member),
                                        member.workingHoursStart,
                                        member.workingHoursEnd)

\* a window that does not wrap for the member wraps for the viewer, and the
\* mask is true on both sides of the viewer's midnight
C18_Witness ==
  /\ Len(memberRows) = 1
  /\ LET row == memberRows[1]
         member == row.member
     IN /\ member.workingHoursStart < member.workingHoursEnd
        /\ member.timezone # visualizer.viewerTimezone
        /\ row.hours[HoursPerDay - 1]
        /\ row.hours[0]
        /\ \E h \in Hours : ~row.hours[h]

----------------------------------------------------------------------------
(* Pairwise overlap *)

\* the member of the list with this id, as a sequence of at most one
MemberOf(id) == SelectSeq(visualizer.members, LAMBDA m : Some(m.id) = id)

\* the member works at viewer-local hour h
WorksAt(member, h) ==
  InWindow(MemberLocalHour(h, member), member.workingHoursStart, member.workingHoursEnd)

\* C19: with both selections present the overlap mask is, at each of the 24
\* hours, the AND of the two selected members' masks (true exactly when both
\* work at that hour), it does not depend on the order of the two, and a
\* row's overlap with itself is its own mask; with a selection missing the
\* overlap mask is false everywhere
C19_OverlapIsElementwiseAnd ==
  /\ DOMAIN overlapHours = Hours
  /\ IF selectedRowA = None \/ selectedRowB = None
     THEN \A h \in Hours : ~overlapHours[h]
     ELSE /\ MemberOf(activeAId) # <<>>
          /\ MemberOf(activeBId) # <<>>
          /\ \A h \in Hours :
               /\ overlapHours[h] <=>
                    (selectedRowA[1].hours[h] /\ selectedRowB[1].hours[h])
               /\ overlapHours[h] <=>
                    (WorksAt(MemberOf(activeAId)[1], h) /\ WorksAt(MemberOf(activeBId)[1], h))
          /\ OverlapOf(selectedRowB, selectedRowA) = overlapHours
  /\ \A i \in 1 .. Len(memberRows) :
       OverlapOf(Some(memberRows[i]), Some(memberRows[i])) = memberRows[i].hours

\* two selected members whose masks differ and overlap in part
C19_Witness ==
  /\ selectedRowA # None
  /\ selectedRowB # None
  /\ \E h \in Hours : overlapHours[h]
  /\ \E h \in Hours : selectedRowA[1].hours[h] /\ ~overlapHours[h]
  /\ \E h \in Hours : selectedRowB[1].hours[h] /\ ~overlapHours[h]
  /\ visualizer.selectedAId # InitialSelectedAId(visualizer.members)

----------------------------------------------------------------------------
(* Overlap summary *)

\* the hours at which the overlap mask is true
OverlapTrueHours == {h \in Hours : overlapHours[h]}

\* the true hours are one run that does not wrap past hour 23
OneRun(T) == T # {} /\ \A h \in Hours : (\E a, b \in T : a <= h /\ h <= b) => h \in T

\* C20: the summary says "no overlap" exactly when no hour of the overlap
\* mask is true; otherwise its start is the smallest true index and its end
\* is (largest true index + 1) mod 24, contiguous or not; and when the true
\* hours are one run that does not wrap, the hours of [start, end) are
\* exactly the true hours
C20_SummaryIsFirstToLastPlusOne ==
  LET summary == OverlapSummary(overlapHours)
      T == OverlapTrueHours
  IN /\ summary.overlap <=> T # {}
     /\ T # {} =>
          /\ summary.start \in T
          /\ \A h \in T : summary.start <= h
          /\ \E top \in T :
               /\ \A h \in T : h <= top
               /\ summary.end = (top + 1) % HoursPerDay
     /\ OneRun(T) =>
          {h \in Hours : InWindow(h, summary.start, summary.end)} = T

\* an overlap in two runs: the summary's window spans an hour that is not an
\* overlap hour
C20_Witness ==
  LET summary == OverlapSummary(overlapHours)
  IN /\ summary.overlap
     /\ summary.start < summary.end
     /\ ~OneRun(OverlapTrueHours)
     /\ \E h \in Hours : InWindow(h, summary.start, summary.end) /\ ~overlapHours[h]

----------------------------------------------------------------------------
(* Group order *)

\* C21: after groupsReordered(order) on a seeded store the group list is
\* `order` restricted to the group ids the store held, in payload order, each
\* group's `order` field is its 0-based position in the resulting list, and
\* the member list is as before
C21_GroupsReorderedByPosition ==
  Stepped({"team.groupsReordered"}) =>
    LET before == GroupsIn(prevData)
        after == GroupsIn(teamData)
    IN /\ IdsOf(after) = Restricted(last.data, before)
       /\ \A i \in 1 .. Len(after) : after[i].order = i - 1
       /\ MembersIn(teamData) = MembersIn(prevData)

\* the `order` values of a group list are pairwise distinct
DistinctOrders(arr) ==
  \A i, j \in 1 .. Len(arr) : arr[i].order = arr[j].order => i = j

\* C22: in every store reached from a seed whose groups have distinct
\* `order` values, by any group events and local group handlers, no two
\* groups have the same `order` value
C22_GroupOrdersStayDistinct ==
  teamData # None => DistinctOrders(GroupsIn(teamData))

----------------------------------------------------------------------------
(* Failed rename *)

\* C24: when the updateTeamName request of an admin's save fails, the shown
\* team name and the remembered previous name are again what they were when
\* the save began, an error is shown, and no request is started in its place
C24_FailedRenameRollsBack ==
  (last.kind = "updateTeamName.resolved" /\ last.toast = "error") =>
    /\ teamName = beforeSave.shown
    /\ previousNameRef = beforeSave.remembered
    /\ nameRequests = <<>>

----------------------------------------------------------------------------
(* Duplicate memberAdded *)

\* C25: a memberAdded delivery for an id the store already holds raises no
\* "joined the team" notification, in page.tsx and in client.tsx
C25_DuplicateAddIsSilent ==
  /\ ( /\ Stepped({"team.memberAdded"})
       /\ SomeId(MembersIn(prevData), last.data.id) ) => last.toast = "none"
  /\ ( /\ last.kind = "client.memberAdded"
       /\ SomeId(prevMembers, last.data.id) ) => last.toast = "none"

----------------------------------------------------------------------------
(* Snapshot references *)

\* C27: for every event and payload, handled on a seeded store, the updater
\* hands back the previous snapshot itself exactly when the content it
\* leaves equals the previous content
C27_NewReferenceIffChanged ==
  teamData # None =>
    \A event \in RealtimeEvents :
      \A data \in PayloadsOf(event) :
        KeepsReference(teamData, lastRemovalRef, now, event, data)
          <=> (OnData(teamData, lastRemovalRef, now, event, data).teamData = teamData)

----------------------------------------------------------------------------
(* Failed drop after a newer write *)

\* C28: when the updateMember request of a drop fails after an event has
\* changed the member's groupId away from the optimistic value, the
\* member's groupId after the rollback is the one that event set
C28_RollbackKeepsNewerWrite ==
  Stepped({"drop.failed"}) =>
    \A i \in 1 .. Len(MembersIn(prevData)) :
      ( /\ MembersIn(prevData)[i].id = last.data.memberId
        /\ MembersIn(prevData)[i].groupId # last.data.groupId ) =>
        /\ i <= Len(MembersIn(teamData))
        /\ MembersIn(teamData)[i].groupId = MembersIn(prevData)[i].groupId

----------------------------------------------------------------------------
(* Reordering members in client.tsx *)

\* arr holds the entries of brr, each as often, in some order
SameEntries(arr, brr) ==
  /\ Len(arr) = Len(brr)
  /\ \A x \in {arr[i] : i \in 1 .. Len(arr)} :
       Cardinality({i \in 1 .. Len(arr) : arr[i] = x})
         = Cardinality({i \in 1 .. Len(brr) : brr[i] = x})

\* C29: handleReorder shows the new order at once; when reorderMembers fails
\* the member list is again exactly the list, entries and order, that was
\* shown when the reorder began, and an error is raised; when it succeeds
\* the list is left as it is
C29_FailedReorderRestoresList ==
  /\ last.kind = "client.handleReorder" =>
       /\ members = last.data
       /\ SameEntries(members, prevMembers)
       /\ \E i \in 1 .. Len(client.reorders) :
            /\ client.reorders[i].previous = prevMembers
            /\ client.reorders[i].newOrderIds = IdsOf(members)
  /\ last.kind = "client.reorder.failed" =>
       /\ members = last.data.previous
       /\ SameEntries(members, prevMembers) => IdsOf(members) # last.data.newOrderIds
       /\ last.toast = "error"
  /\ last.kind = "client.reorder.succeeded" =>
       /\ members = prevMembers
       /\ last.toast = "none"

\* a reorder of two members has failed and the list is back in the order it
\* had
C29_Witness ==
  /\ last.kind = "client.reorder.failed"
  /\ Len(members) = 2
  /\ IdsOf(prevMembers) = last.data.newOrderIds
  /\ IdsOf(members) # IdsOf(prevMembers)
  /\ members = last.data.previous

\* C30: when a reorder fails, a member that a memberRemoved delivery took
\* out while the request was outstanding is not in the list afterwards, and
\* a member that a memberAdded delivery put in is still in it
C30_RollbackKeepsMembership ==
  last.kind = "client.reorder.failed" =>
    /\ \A id \in IdSet(last.data.previous) \ IdSet(prevMembers) : id \notin IdSet(members)
    /\ \A id \in IdSet(prevMembers) \ IdSet(last.data.previous) : id \in IdSet(members)

----------------------------------------------------------------------------
(* Loading the collapsed groups *)

\* the item is the JSON text of a list
IsStoredList(item) ==
  item # None /\ item[1].form = "json" /\ item[1].kind = "array"

\* C26: the mount never fails on the stored collapsed-groups item: a missing
\* item, a text that is no JSON and a JSON value that is no list all leave
\* the collapsed set empty, and a stored list is taken as the set
C26_CollapsedLoadToleratesMalformed ==
  last.kind = "mount" =>
    /\ ~collapsed.failed
    /\ IF IsStoredList(last.data)
       THEN \A g \in GroupIds :
              Includes(collapsed.groups, g) <=> Includes(last.data[1].items, g)
       ELSE collapsed.groups = <<>>

----------------------------------------------------------------------------
(* The visited teams *)

VisitedIds(teams) == {teams[i].id : i \in 1 .. Len(teams)}

\* later entries were saved earlier
NewestFirst(teams) ==
  \A i, j \in 1 .. Len(teams) : i < j => teams[i].lastVisited > teams[j].lastVisited

\* C23: the visited-teams list has at most ten entries, no team twice, in the
\* order of the saves with the latest first; a save puts its team first,
\* keeps the stored name when no name is given, and at a full list drops
\* exactly the entry saved the longest ago
C23_VisitedTeamsBoundedRecentFirst ==
  /\ Len(visitedTeams) <= MAX_VISITED_TEAMS
  /\ Cardinality(VisitedIds(visitedTeams)) = Len(visitedTeams)
  /\ NewestFirst(visitedTeams)
  /\ last.kind = "saveVisitedTeam" =>
       LET before == last.data.before
           stored == FindVisited(before, last.data.teamId)
       IN /\ visitedTeams # <<>>
          /\ visitedTeams[1].id = last.data.teamId
          /\ (last.data.name = None /\ stored # None) =>
               visitedTeams[1].name = stored[1].name
          /\ (last.data.name # None) => visitedTeams[1].name = last.data.name[1]
          /\ IF stored = None /\ Len(before) = MAX_VISITED_TEAMS
             THEN /\ VisitedIds(visitedTeams) =
                       (VisitedIds(before) \cup {last.data.teamId})
                         \ {before[Len(before)].id}
                  /\ \A i \in 1 .. Len(before) :
                       before[Len(before)].lastVisited <= before[i].lastVisited
             ELSE VisitedIds(visitedTeams) = VisitedIds(before) \cup {last.data.teamId}

\* an eleventh team was saved into a full list, and before that a team was
\* saved again without a name after it had been renamed
C23_Witness ==
  /\ last.kind = "saveVisitedTeam"
  /\ Len(last.data.before) = MAX_VISITED_TEAMS
  /\ FindVisited(last.data.before, last.data.teamId) = None
  /\ \E i \in 1 .. Len(visitedTeams) :
       visitedTeams[i].id \in TeamIds /\ visitedTeams[i].name = "Crew"

----------------------------------------------------------------------------
(* Group assignments refer to stored groups *)

\* every member is ungrouped or in a group of the same store
Assigned(data) ==
  \A i \in 1 .. Len(MembersIn(data)) :
    \/ MembersIn(data)[i].groupId = NoGroup
    \/ MembersIn(data)[i].groupId \in IdSet(GroupsIn(data))

\* C31: in every reachable store, each member's groupId is undefined or the
\* id of a group the store holds
C31_GroupIdsReferToStoredGroups ==
  teamData # None => Assigned(teamData)

----------------------------------------------------------------------------
(* The "left the team" notification *)

\* C32: a memberRemoved delivery raises the "left the team" notification
\* only when it removes a member the store held, and not when a delivery
\* for the same id removed that member less than DedupWindowMs before
C32_LeftNoticeOncePerWindow ==
  (Stepped({"team.memberRemoved"}) /\ last.toast = "success") =>
    /\ SomeId(MembersIn(prevData), last.data)
    /\ ~SomeId(MembersIn(teamData), last.data)
    /\ \/ removedAt[last.data].was = -1
       \/ now - removedAt[last.data].was >= DedupWindowMs

----------------------------------------------------------------------------
(* What each event leaves alone *)

\* the cache after one delivery of `event` with payload `data`, now
After(event, data) == OnData(teamData, lastRemovalRef, now, event, data).teamData

\* C33: on every reachable seeded store and for every payload, the four
\* member events keep the team name and the group list, groupCreated,
\* groupUpdated and groupsReordered keep the member list and the team name,
\* nameUpdated keeps members and groups, and no event changes the team id
\* or the role
C33_EventsKeepTheirFrame ==
  teamData # None =>
    \A event \in RealtimeEvents :
      \A data \in PayloadsOf(event) :
        LET before == teamData[1]
            after == After(event, data)
        IN /\ after # None
           /\ after[1].team.id = before.team.id
           /\ after[1].role = before.role
           /\ event \in MemberEvents =>
                /\ after[1].team.name = before.team.name
                /\ after[1].team.groups = before.team.groups
           /\ event \in GroupEvents \ {"team.groupRemoved"} =>
                /\ after[1].team.members = before.team.members
                /\ after[1].team.name = before.team.name
           /\ event = "team.nameUpdated" =>
                /\ after[1].team.members = before.team.members
                /\ after[1].team.groups = before.team.groups

\* a store with members, groups and a name that is not the seed's, on which
\* each kind of event has a payload that changes its own part
C33_Witness ==
  /\ teamData # None
  /\ MembersIn(teamData) # <<>>
  /\ GroupsIn(teamData) # <<>>
  /\ teamData[1].team.name = "Crew"
  /\ \A event \in RealtimeEvents \ {"team.groupsReordered"} :
       \E data \in PayloadsOf(event) : After(event, data) # teamData

----------------------------------------------------------------------------
(* Only the fetch seeds the store *)

LocalHandlers ==
  {"handleMemberAdded", "handleMemberRemoved", "handleMemberUpdated",
   "handleGroupAdded", "handleGroupUpdated", "handleGroupRemoved"}

\* C34: while the store is unseeded, no event of any kind and payload and no
\* local handler seeds it: only the fetch does; and an event is delivered
\* only while there is a session
C34_OnlyFetchSeedsStore ==
  /\ teamData = None =>
       \A event \in RealtimeEvents :
         \A data \in PayloadsOf(event) : After(event, data) = None
  /\ (last.kind \in RealtimeEvents \cup LocalHandlers /\ prevData = None) =>
       teamData = None
  /\ (prevData = None /\ teamData # None) => last.kind = "fetch"
  /\ last.kind \in RealtimeEvents => session # None

\* a local handler ran on the unseeded store of a page with a session
C34_Witness ==
  /\ last.kind \in LocalHandlers
  /\ prevData = None
  /\ session # None

----------------------------------------------------------------------------
(* The stored selection and its source *)

\* the selection was taken back by the stale-selection effect of the step:
\* the member is not in the non-empty list
ClearedAsStale(id) ==
  /\ hookMembers # <<>>
  /\ ~SomeId(hookMembers, id)
  /\ state.memberId = None
  /\ state.source = "null"

\* C35: the stored source is null exactly when the stored memberId is null;
\* acceptSuggestion(id) stores id with source "suggested", setCurrentUser(id)
\* without a source stores "explicit" (unless the member is not in the list
\* and the stale-selection effect clears both at once); dismissSuggestion
\* keeps memberId and source, clearCurrentUser keeps the dismissed list
C35_SourceFollowsSelection ==
  /\ state.source = "null" <=> state.memberId = None
  /\ last.kind = "acceptSuggestion" =>
       \/ state.memberId = Some(last.data.arg) /\ state.source = "suggested"
       \/ ClearedAsStale(last.data.arg)
  /\ ( /\ last.kind = "setCurrentUser"
       /\ last.data.arg.memberId # None
       /\ last.data.arg.source = None ) =>
       \/ state.memberId = last.data.arg.memberId /\ state.source = "explicit"
       \/ ClearedAsStale(last.data.arg.memberId[1])
  /\ last.kind = "dismissSuggestion" =>
       /\ state.memberId = last.data.state.memberId
       /\ state.source = last.data.state.source
  /\ last.kind = "clearCurrentUser" =>
       state.dismissedSuggestions = last.data.state.dismissedSuggestions

\* a suggestion was accepted and is stored, with a member dismissed before
C35_Witness ==
  /\ last.kind = "acceptSuggestion"
  /\ state.source = "suggested"
  /\ state.dismissedSuggestions # <<>>

----------------------------------------------------------------------------
(* The dismissed suggestions as a set *)

\* C36: no member id occurs twice in the stored dismissed list, and
\* dismissSuggestion(id) for an id the list holds leaves the state as it was
C36_DismissedIsASet ==
  /\ \A i, j \in 1 .. Len(state.dismissedSuggestions) :
       state.dismissedSuggestions[i] = state.dismissedSuggestions[j] => i = j
  /\ ( /\ last.kind = "dismissSuggestion"
       /\ Includes(last.data.state.dismissedSuggestions, last.data.arg) ) =>
       state = last.data.state

----------------------------------------------------------------------------
(* The active pair *)

\* C37: whatever the two stored selections are, the first active id is a
\* current member when there is one, the second is another current member
\* when there are two or more, and null when there are fewer than two
C37_ActivePairIsTwoCurrentMembers ==
  LET ids == IdSetOf(visualizer.members)
  IN /\ visualizer.members # <<>> =>
          activeAId # None /\ activeAId[1] \in ids
     /\ visualizer.members = <<>> => activeAId = None
     /\ Len(visualizer.members) >= 2 =>
          activeBId # None /\ activeBId[1] \in ids /\ activeBId # activeAId
     /\ Len(visualizer.members) < 2 => activeBId = None

\* both stored selections name the same current member, after a removal
C37_Witness ==
  /\ Len(visualizer.members) = 2
  /\ visualizer.selectedAId # None
  /\ visualizer.selectedAId = visualizer.selectedBId
  /\ visualizer.selectedAId[1] \in IdSetOf(visualizer.members)

----------------------------------------------------------------------------
(* Collapsing and expanding a group *)

\* with groupId collapsed on top of `groups`, some member is still shown
StaysVisible(arr, groups, groupId) ==
  \E i \in 1 .. Len(arr) :
    \/ arr[i].groupId = NoGroup
    \/ arr[i].groupId # groupId /\ ~Includes(groups, arr[i].groupId)

\* C38: toggleGroupCollapse(g) expands g when it was collapsed; when it was
\* not, it collapses g exactly when some member would still be visible and
\* otherwise changes nothing; no other group changes its status
C38_ToggleKeepsAMemberVisible ==
  last.kind = "toggleGroupCollapse" =>
    LET g == last.data.groupId
        before == last.data.before
        after == collapsed.groups
    IN /\ Includes(before, g) => ~Includes(after, g)
       /\ ~Includes(before, g) =>
            ( Includes(after, g) <=> StaysVisible(MembersIn(teamData), before, g) )
       /\ (~Includes(before, g) /\ ~Includes(after, g)) => after = before
       /\ \A h \in GroupIds \ {g} : Includes(after, h) <=> Includes(before, h)

\* a collapse was refused: every member is in the group or in a collapsed one
C38_Witness ==
  /\ last.kind = "toggleGroupCollapse"
  /\ ~Includes(last.data.before, last.data.groupId)
  /\ ~Includes(collapsed.groups, last.data.groupId)
  /\ last.data.before # <<>>
  /\ MembersIn(teamData) # <<>>

----------------------------------------------------------------------------
(* Member cards wait for the server *)

\* C39: pressing Remove or Save on a card leaves the store as it was and
\* sends one request (none for a blank name); an error answer leaves the
\* store as it was, shows the error and sends no further request; a success
\* answer is what changes the store
C39_CardEditsAreNotOptimistic ==
  /\ last.kind = "card.handleRemove" =>
       /\ teamData = prevData
       /\ Len(cardRequests) = Len(last.data.before) + 1
  /\ last.kind = "card.handleSave" =>
       /\ teamData = prevData
       /\ Len(cardRequests) =
            Len(last.data.before) + (IF TrimName(last.data.name) = "" THEN 0 ELSE 1)
  /\ (last.kind = "card.resolved" /\ ~last.data.success) =>
       /\ teamData = prevData
       /\ last.toast = "error"
       /\ Len(cardRequests) = Len(last.data.before) - 1
  /\ (last.kind = "card.resolved" /\ last.data.success /\ prevData # None) =>
       /\ teamData # None
       /\ Len(cardRequests) = Len(last.data.before) - 1
       /\ IF last.data.request.action = "removeMember"
          THEN /\ ~SomeId(MembersIn(teamData), last.data.request.memberId)
               /\ IdSet(MembersIn(teamData)) =
                    IdSet(MembersIn(prevData)) \ {last.data.request.memberId}
          ELSE /\ IdsOf(MembersIn(teamData)) = IdsOf(MembersIn(prevData))
               /\ \A k \in 1 .. Len(MembersIn(teamData)) :
                    MembersIn(teamData)[k] =
                      IF MembersIn(prevData)[k].id = last.data.request.memberId
                      THEN last.data.request.member
                      ELSE MembersIn(prevData)[k]

\* a rename from a card was refused by the server, the member still stored
\* under its old name
C39_Witness ==
  /\ last.kind = "card.resolved"
  /\ ~last.data.success
  /\ last.data.request.action = "updateMember"
  /\ teamData # None
  /\ \E k \in 1 .. Len(MembersIn(teamData)) :
       /\ MembersIn(teamData)[k].id = last.data.request.memberId
       /\ MembersIn(teamData)[k].name # last.data.request.member.name

----------------------------------------------------------------------------
(* The window that starts and ends at the same hour *)

Degenerate(member) == member.workingHoursStart = member.workingHoursEnd

\* C40: a member whose window starts and ends at the same hour works at no
\* hour, in every viewer zone, and an overlap with that member is empty
C40_DegenerateWindowNeverWorks ==
  /\ \A i \in 1 .. Len(memberRows) :
       Degenerate(memberRows[i].member) =>
         \A h \in Hours : ~memberRows[i].hours[h]
  /\ ( \/ selectedRowA # None /\ Degenerate(selectedRowA[1].member)
       \/ selectedRowB # None /\ Degenerate(selectedRowB[1].member) ) =>
       /\ \A h \in Hours : ~overlapHours[h]
       /\ ~OverlapSummary(overlapHours).overlap

\* the viewer sees the rows from another zone; the degenerate member is the
\* second selection, the first one works at some hour
C40_Witness ==
  /\ selectedRowA # None
  /\ selectedRowB # None
  /\ Degenerate(selectedRowB[1].member)
  /\ selectedRowB[1].member.timezone # visualizer.viewerTimezone
  /\ \E h \in Hours : selectedRowA[1].hours[h]

====
